---------------------------- MODULE Spec2Model ----------------------------
(***************************************************************************)
(* Authoritative server of the tank game (GameServer, ClientInfo,          *)
(* EnemyTank, Bullet).                                                     *)
(*                                                                         *)
(* Units.  Time is in milliseconds (0.022f s is 22), positions in whole    *)
(* world units, angles in whole degrees, health and score in points.       *)
(* Float arithmetic is modelled in fixed point: sines and cosines are      *)
(* thousandths, quotients are truncated toward zero.  Comparisons of a     *)
(* distance with a range are made on the squares, which is the same        *)
(* comparison on the reals.                                                *)
(*                                                                         *)
(* One datagram handled by ProcessPacket is one step; the rest of          *)
(* GameServer::Update (simulation, broadcast, reaping) is the Tick step.   *)
(* An Update that drains k datagrams is k datagram steps followed by Tick. *)
(* unordered_map loops are taken in ascending key order.                   *)
(***************************************************************************)
EXTENDS Integers, Sequences, FiniteSets, TLC

\* ------------------------------------------------------------------ bounds
MaxMsgs == 3
MaxTicks == 2
MaxIdleTicks == 5
MaxHuntMsgs == 6
MaxHuntTicks == 3
MaxCombatTicks == 48
MaxCombatMsgs == 2

\* ------------------------------------------------- world_constants.h
WORLD_WIDTH == 1280
WORLD_HEIGHT == 960
BORDER_THICKNESS == 48
TANK_RADIUS == 25
ENEMY_TANK_RADIUS == 25
BULLET_RADIUS == 4
SPAWN_SAFETY_MARGIN == 10
PLAYABLE_MIN_X == BORDER_THICKNESS
PLAYABLE_MAX_X == WORLD_WIDTH - BORDER_THICKNESS
PLAYABLE_MIN_Y == BORDER_THICKNESS
PLAYABLE_MAX_Y == WORLD_HEIGHT - BORDER_THICKNESS
PLAYABLE_WIDTH == PLAYABLE_MAX_X - PLAYABLE_MIN_X
PLAYABLE_HEIGHT == PLAYABLE_MAX_Y - PLAYABLE_MIN_Y
MOVEMENT_MIN_X == PLAYABLE_MIN_X + TANK_RADIUS
MOVEMENT_MAX_X == PLAYABLE_MAX_X - TANK_RADIUS
MOVEMENT_MIN_Y == PLAYABLE_MIN_Y + TANK_RADIUS
MOVEMENT_MAX_Y == PLAYABLE_MAX_Y - TANK_RADIUS
SPAWN_MARGIN == BORDER_THICKNESS + TANK_RADIUS + SPAWN_SAFETY_MARGIN
SPAWN_MIN_X == SPAWN_MARGIN
SPAWN_MAX_X == WORLD_WIDTH - SPAWN_MARGIN
SPAWN_MIN_Y == SPAWN_MARGIN
SPAWN_MAX_Y == WORLD_HEIGHT - SPAWN_MARGIN
CENTER_X == WORLD_WIDTH \div 2
CENTER_Y == WORLD_HEIGHT \div 2

\* ------------------------------------------------- network_validation.h
MIN_ROTATION == -360
MAX_ROTATION == 720
MAX_PLAYER_COUNT == 100
MAX_COLOR_NAME_LENGTH == 20
MAX_PLAYER_NAME_LENGTH == 50
MAX_PLAYER_ID == 1000000

\* ------------------------------------------------- game_server.h / .cpp
RESPAWN_COOLDOWN == 5000
DEATH_PENALTY == 100
gameStateUpdateRate == 22
bulletUpdateRate == 33
clientTimeoutDuration == 15000
enemySpawnInterval == 5000
FIRST_PLAYER_ID == 1
FIRST_ENEMY_ID == 1000
FIRST_BULLET_ID == 10000
OUT_OF_ORDER_THRESHOLD == 50
MAX_SEQUENCE_HISTORY == 200
MOVEMENT_SPEED == 150
ROTATION_SPEED == 200
SEPARATION_SPEED == 200
MIN_SEPARATION == 2
MAX_ATTEMPTS == 10
MIN_SAFE_DISTANCE == 200
RESPAWN_EDGE_MARGIN == 50
INTERIOR_MARGIN == 150
JOIN_HEALTH == 100
SHOT_JUMP == 500
ENEMY_ID_BOUNDARY == 1000
availableColors == <<"red", "blue", "green", "black">>

\* ------------------------------------------------------- fixed point math
Abs(a) == IF a < 0 THEN -a ELSE a
Min(a, b) == IF a < b THEN a ELSE b
Max(a, b) == IF a > b THEN a ELSE b

\* a / b on floats, truncated toward zero
Quot(a, b) == IF a >= 0 THEN a \div b ELSE -((-a) \div b)

\* std::max(lo, std::min(hi, v))
Clamp(v, lo, hi) == Max(lo, Min(hi, v))

RECURSIVE SqrtSearch(_, _, _)
SqrtSearch(n, lo, hi) ==
    IF lo >= hi THEN lo
    ELSE LET mid == (lo + hi + 1) \div 2
         IN IF mid * mid <= n THEN SqrtSearch(n, mid, hi)
            ELSE SqrtSearch(n, lo, mid - 1)

\* std::sqrt, rounded down
ISqrt(n) == SqrtSearch(n, 0, 2048)

SinTable ==
  << 0, 17, 35, 52, 70, 87, 105, 122, 139, 156, 174, 191, 208,
     225, 242, 259, 276, 292, 309, 326, 342, 358, 375, 391, 407, 423,
     438, 454, 469, 485, 500, 515, 530, 545, 559, 574, 588, 602, 616,
     629, 643, 656, 669, 682, 695, 707, 719, 731, 743, 755, 766, 777,
     788, 799, 809, 819, 829, 839, 848, 857, 866, 875, 883, 891, 899,
     906, 914, 921, 927, 934, 940, 946, 951, 956, 961, 966, 970, 974,
     978, 982, 985, 988, 990, 993, 995, 996, 998, 999, 999, 1000, 1000 >>

\* degrees brought into [0, 360), for the table lookups only
Mod360(a) == a % 360

\* 1000 * std::sin(a degrees)
Sin1000(a) ==
    LET Quadrant(d) == IF d <= 90 THEN d
                       ELSE IF d <= 180 THEN 180 - d
                       ELSE IF d <= 270 THEN d - 180
                       ELSE 360 - d
        Sign(d) == IF d <= 180 THEN 1 ELSE -1
        Signed(sign, value) == sign * value
    IN Signed(Sign(Mod360(a)), SinTable[Quadrant(Mod360(a)) + 1])

\* 1000 * std::cos(a degrees)
Cos1000(a) == Sin1000(a + 90)

RECURSIVE AtanSearch(_, _, _, _)
AtanSearch(y, x, lo, hi) ==
    IF lo >= hi THEN lo
    ELSE LET Halve(mid, table) ==
                 IF table[mid + 1] * x <= table[90 - mid + 1] * y
                 THEN AtanSearch(y, x, mid, hi)
                 ELSE AtanSearch(y, x, lo, mid - 1)
         IN Halve((lo + hi + 1) \div 2, SinTable)

\* std::atan2(dy, dx) * 180 / pi, in (-180, 180], rounded toward the axis
Atan2Deg(dy, dx) ==
    IF dx = 0 /\ dy = 0 THEN 0
    ELSE LET InQuadrant(a) ==
                 IF dx >= 0 /\ dy >= 0 THEN a
                 ELSE IF dx < 0 /\ dy >= 0 THEN 180 - a
                 ELSE IF dx < 0 /\ dy < 0 THEN IF a = 0 THEN 180 ELSE a - 180
                 ELSE -a
         IN InQuadrant(AtanSearch(Abs(dy), Abs(dx), 0, 90))

DistSq(x1, y1, x2, y2) == (x1 - x2) * (x1 - x2) + (y1 - y2) * (y1 - y2)

\* speed * dt, dt in milliseconds
Travel(speed, dt) == Quot(speed * dt, 1000)

\* ascending list of the elements of a finite set of integers
RECURSIVE SortedSeq(_)
SortedSeq(S) ==
    IF S = {} THEN <<>>
    ELSE LET m == CHOOSE a \in S : \A b \in S : a <= b
         IN <<m>> \o SortedSeq(S \ {m})

Keys(f) == SortedSeq(DOMAIN f)

\* f with key k removed
Without(f, k) == [j \in DOMAIN f \ {k} |-> f[j]]

\* f with f[k] = v, k new or old
With(f, k, v) == [j \in DOMAIN f \cup {k} |-> IF j = k THEN v ELSE f[j]]

\* ------------------------------------------------------------------ state
VARIABLES
    clients,                \* playerId -> ClientInfo
    enemies,                \* enemyId -> EnemyTank
    bullets,                \* bulletId -> Bullet
    nextPlayerId,
    nextEnemyId,
    nextBulletId,
    outgoingSequenceNumber,
    gameStateUpdateTimer,
    bulletUpdateTimer,
    enemySpawnTimer,
    sent,                   \* datagrams put on the socket by the last step
    step,                   \* the last step: its kind and its inputs
    tickCount,              \* Update calls so far
    msgCount,               \* datagrams handled so far
    networkClient,          \* one NetworkClient with its ClientPrediction and local Tank
    snapshots,              \* one EntityInterpolationBuffer's snapshot deque
    interpolation,          \* the render time of the InterpolationManager and
                            \* the blending fields of that buffer
    receiveErrorRun,        \* Error or Disconnected statuses the server's receive
                            \* returned in a row (GameServer keeps no such field)
    sinceShot               \* enemyId -> tick time since that enemy's last shot,
                            \* for the enemies that have fired (kept for the
                            \* properties)

vars == <<clients, enemies, bullets, nextPlayerId, nextEnemyId, nextBulletId,
          outgoingSequenceNumber, gameStateUpdateTimer, bulletUpdateTimer,
          enemySpawnTimer, sent, step, tickCount, msgCount, networkClient,
          snapshots, interpolation, receiveErrorRun, sinceShot>>

\* the server's fields as one value, with the datagrams sent so far in the
\* step
World ==
    [clients |-> clients, enemies |-> enemies, bullets |-> bullets,
     nextPlayerId |-> nextPlayerId, nextEnemyId |-> nextEnemyId,
     nextBulletId |-> nextBulletId,
     outgoingSequenceNumber |-> outgoingSequenceNumber,
     gameStateUpdateTimer |-> gameStateUpdateTimer,
     bulletUpdateTimer |-> bulletUpdateTimer,
     enemySpawnTimer |-> enemySpawnTimer,
     out |-> <<>>]

\* ------------------------------------------------- the client at start
\* NetworkClient after NetworkClient::NetworkClient and a successful Connect,
\* with its ClientPrediction (nextSequenceNumber, the two histories by
\* sequence number, inputBuffer) and the local
\* Tank that MultiplayerGame creates at the centre and hands to it; now is
\* the client's clock in microseconds
ConnectedClient ==
    [isConnected |-> TRUE, localPlayerId |-> 0,
     consecutiveErrors |-> 0, pingTimer |-> 0, predictionEnabled |-> TRUE,
     serverAuthoritativePosition |-> [x |-> 0, y |-> 0],
     serverAuthoritativeBodyRotation |-> 0,
     serverAuthoritativeIsDead |-> FALSE,
     hasServerAuthoritativeState |-> FALSE,
     reconciliationTargetPosition |-> [x |-> 0, y |-> 0],
     reconciliationTargetRotation |-> 0,
     isReconciling |-> FALSE,
     lastAcknowledgedInputSeq |-> 0,
     nextSequenceNumber |-> 1,
     inputHistory |-> <<>>, predictionHistory |-> <<>>,
     inputBuffer |-> <<>>,
     otherPlayers |-> <<>>, enemyData |-> <<>>, bulletData |-> <<>>,
     lastCleanupSequence |-> 0,
     localPlayer |-> [x |-> CENTER_X, y |-> CENTER_Y,
                      bodyRotation |-> 0, barrelRotation |-> 0],
     now |-> 0]

\* ------------------------------------------------- network_validation.h
IsValidPosition(x, y) ==
    /\ x >= MOVEMENT_MIN_X /\ x <= MOVEMENT_MAX_X
    /\ y >= MOVEMENT_MIN_Y /\ y <= MOVEMENT_MAX_Y

IsValidRotation(rotation) == rotation >= MIN_ROTATION /\ rotation <= MAX_ROTATION

IsValidPlayerName(name) == Len(name) > 0 /\ Len(name) <= MAX_PLAYER_NAME_LENGTH

IsValidColor(color) == Len(color) > 0 /\ Len(color) <= MAX_COLOR_NAME_LENGTH

IsValidPlayerCount(count) == count > 0 /\ count <= MAX_PLAYER_COUNT

IsValidPlayerId(playerId) == playerId > 0 /\ playerId < MAX_PLAYER_ID

ClampPositionX(x) == Clamp(x, MOVEMENT_MIN_X, MOVEMENT_MAX_X)

ClampPositionY(y) == Clamp(y, MOVEMENT_MIN_Y, MOVEMENT_MAX_Y)

RECURSIVE RotUp(_)
RotUp(r) == IF r < 0 THEN RotUp(r + 360) ELSE r

RECURSIVE RotDown(_)
RotDown(r) == IF r >= 360 THEN RotDown(r - 360) ELSE r

NormalizeRotation(rotation) == RotDown(RotUp(rotation))

\* ------------------------------------------------- ClientInfo
NewPlayerData(id, name, color) ==
    [playerId |-> id, playerName |-> name,
     x |-> CENTER_X, y |-> CENTER_Y,
     bodyRotation |-> 0, barrelRotation |-> 0, color |-> color,
     isMoving_forward |-> FALSE, isMoving_backward |-> FALSE,
     isMoving_left |-> FALSE, isMoving_right |-> FALSE,
     health |-> JOIN_HEALTH, maxHealth |-> JOIN_HEALTH,
     score |-> 0, isDead |-> FALSE]

ClientInfo(addr, pd) ==
    [address |-> addr, playerData |-> pd,
     lastUpdateTime |-> 0, isActive |-> TRUE,
     lastReceivedSequenceNumber |-> 0, receivedSequenceNumbers |-> {},
     lastAcknowledgedInputSeq |-> 0,
     score |-> 0, isDead |-> FALSE, deathTimer |-> 0]

\* ------------------------------------------------- sequence tracking
ValidateSequenceNumber(client, sequenceNumber) ==
    /\ sequenceNumber \notin client.receivedSequenceNumbers
    /\ ~(sequenceNumber + OUT_OF_ORDER_THRESHOLD < client.lastReceivedSequenceNumber)

RecordReceivedSequence(client, sequenceNumber) ==
    LET seen == client.receivedSequenceNumbers \cup {sequenceNumber}
        last == Max(client.lastReceivedSequenceNumber, sequenceNumber)
        minSequence == IF last > MAX_SEQUENCE_HISTORY
                       THEN last - MAX_SEQUENCE_HISTORY ELSE 0
    IN [client EXCEPT
          !.lastReceivedSequenceNumber = last,
          !.receivedSequenceNumbers =
              IF Cardinality(seen) > MAX_SEQUENCE_HISTORY
              THEN {q \in seen : q >= minSequence} ELSE seen]

\* ------------------------------------------------- datagrams sent
ActiveIds(cs) == {id \in DOMAIN cs : cs[id].isActive}

ActiveAddresses(cs) == {cs[id].address : id \in ActiveIds(cs)}

Emit(W, m) == [W EXCEPT !.out = Append(@, m)]

EnemyData(id, e) ==
    [enemyId |-> id, enemyType |-> e.enemyType, x |-> e.x, y |-> e.y,
     bodyRotation |-> e.bodyRotation, barrelRotation |-> e.barrelRotation,
     health |-> e.currentHealth, maxHealth |-> e.maxHealth]

\* the loop of both GameState senders that copies score and isDead into the
\* record that goes on the wire
SyncPlayerData(cs) ==
    [id \in DOMAIN cs |->
        IF cs[id].isActive
        THEN [cs[id] EXCEPT !.playerData.score = cs[id].score,
                            !.playerData.isDead = cs[id].isDead]
        ELSE cs[id]]

GameStateMessage(W, cs, recipients) ==
    [type |-> "GAME_STATE", to |-> recipients,
     players |-> [id \in ActiveIds(cs) |-> cs[id].playerData],
     enemies |-> [id \in DOMAIN W.enemies |-> EnemyData(id, W.enemies[id])],
     sequenceNumber |-> W.outgoingSequenceNumber,
     lastAckedInput |-> 0]

SendGameStateToAll(W) ==
    IF DOMAIN W.clients = {} THEN W
    ELSE LET cs == SyncPlayerData(W.clients)
             m == GameStateMessage(W, cs, ActiveAddresses(cs))
         IN [Emit(W, m) EXCEPT
               !.clients = cs,
               !.outgoingSequenceNumber = @ + 1]

SendGameStateToClient(W, playerId) ==
    IF playerId \notin DOMAIN W.clients \/ ~W.clients[playerId].isActive THEN W
    ELSE LET cs == SyncPlayerData(W.clients)
             m == GameStateMessage(W, cs, {cs[playerId].address})
         IN [Emit(W, m) EXCEPT
               !.clients = cs,
               !.outgoingSequenceNumber = @ + 1]

SendPlayerIdAssignment(W, playerId, addr) ==
    Emit(W, [type |-> "PLAYER_ID_ASSIGNMENT", to |-> {addr},
             playerId |-> playerId])

\* a sender that acknowledges the client's highest sequence instead of the
\* sequence of the input just handled
SendInputAcknowledgment_HighWater(W, playerId, acknowledgedSeq, addr) ==
    Emit(W, [type |-> "INPUT_ACK", to |-> {addr}, playerId |-> playerId,
             acknowledgedSequence |->
                 W.clients[playerId].lastReceivedSequenceNumber])

SendInputAcknowledgment(W, playerId, acknowledgedSeq, addr) ==
    Emit(W, [type |-> "INPUT_ACK", to |-> {addr}, playerId |-> playerId,
             acknowledgedSequence |-> acknowledgedSeq])

BroadcastPlayerLeft(W, playerId) == SendGameStateToAll(W)

\* ------------------------------------------------- Bullet
BulletSpeed(t) ==
    CASE t = "PLAYER_STANDARD" -> 500 [] t = "ENEMY_STANDARD" -> 450
      [] t = "TANK_SHELL" -> 300 [] OTHER -> 600

BulletDamage(t) ==
    CASE t = "PLAYER_STANDARD" -> 25 [] t = "ENEMY_STANDARD" -> 20
      [] t = "TANK_SHELL" -> 50 [] OTHER -> 20

BulletLifetime(t) ==
    CASE t = "PLAYER_STANDARD" -> 3000 [] t = "ENEMY_STANDARD" -> 3000
      [] t = "TANK_SHELL" -> 5000 [] OTHER -> 2500

BulletRadius(t) == CASE t = "TANK_SHELL" -> 6 [] OTHER -> BULLET_RADIUS

\* Bullet::Bullet; the direction is in thousandths, the velocity in units
\* per second
NewBullet(t, x, y, dirX, dirY, ownerId) ==
    LET dirLength == ISqrt(dirX * dirX + dirY * dirY)
        nx == IF dirLength > 1 THEN Quot(dirX * 1000, dirLength) ELSE 1000
        ny == IF dirLength > 1 THEN Quot(dirY * 1000, dirLength) ELSE 0
    IN [bulletType |-> t, x |-> x, y |-> y,
        vx |-> Quot(nx * BulletSpeed(t), 1000),
        vy |-> Quot(ny * BulletSpeed(t), 1000),
        ownerId |-> ownerId, lifetime |-> BulletLifetime(t),
        isDestroyed |-> FALSE]

BulletToBulletData(b, bulletId) ==
    [bulletId |-> bulletId, ownerId |-> b.ownerId, bulletType |-> b.bulletType,
     x |-> b.x, y |-> b.y, velocityX |-> b.vx, velocityY |-> b.vy,
     damage |-> BulletDamage(b.bulletType)]

SendBulletUpdates(W) ==
    IF DOMAIN W.bullets = {} \/ DOMAIN W.clients = {} THEN W
    ELSE LET live == {id \in DOMAIN W.bullets : ~W.bullets[id].isDestroyed}
             m == [type |-> "BULLET_UPDATE", to |-> ActiveAddresses(W.clients),
                   bullets |-> [id \in live |->
                                   BulletToBulletData(W.bullets[id], id)],
                   sequenceNumber |-> W.outgoingSequenceNumber]
         IN [Emit(W, m) EXCEPT !.outgoingSequenceNumber = @ + 1]

BroadcastBulletDestruction(W, bulletId, reason, hitTargetId, hitX, hitY) ==
    IF DOMAIN W.clients = {} THEN W
    ELSE LET m == [type |-> "BULLET_DESTROY", to |-> ActiveAddresses(W.clients),
                   bulletId |-> bulletId, destroyReason |-> reason,
                   hitTargetId |-> hitTargetId, hitX |-> hitX, hitY |-> hitY,
                   sequenceNumber |-> W.outgoingSequenceNumber]
         IN [Emit(W, m) EXCEPT !.outgoingSequenceNumber = @ + 1]

\* ------------------------------------------------- datagram handlers
\* a server that finds no client by its address
FindPlayerByAddress_Never(cs, addr) == 0

FindPlayerByAddress(cs, addr) ==
    LET hits == {id \in DOMAIN cs : cs[id].address = addr}
    IN IF hits = {} THEN 0 ELSE CHOOSE id \in hits : \A j \in hits : id <= j

\* the first palette colour no client uses; with the palette used up the
\* code draws one at random, which is the argument pick
AssignColor(cs, pick) ==
    LET used == {cs[id].playerData.color : id \in DOMAIN cs}
        free == {i \in DOMAIN availableColors : availableColors[i] \notin used}
    IN IF free # {}
       THEN availableColors[CHOOSE i \in free : \A j \in free : i <= j]
       ELSE availableColors[pick]

\* msg: playerName (a sequence of characters), preferredColor, sequenceNumber
HandleJoinRequest(W, msg, addr, pick) ==
    IF ~IsValidPlayerName(msg.playerName) THEN W
    ELSE LET existingPlayerId == FindPlayerByAddress(W.clients, addr)
         IN IF existingPlayerId # 0
            THEN LET W1 == [W EXCEPT
                              !.clients[existingPlayerId].isActive = TRUE,
                              !.clients[existingPlayerId].lastUpdateTime = 0,
                              !.clients[existingPlayerId].playerData.playerName =
                                  msg.playerName]
                     W2 == SendPlayerIdAssignment(W1, existingPlayerId, addr)
                 IN SendGameStateToClient(W2, existingPlayerId)
            ELSE LET id == W.nextPlayerId
                     color == IF msg.preferredColor # "" THEN msg.preferredColor
                              ELSE AssignColor(W.clients, pick)
                     newClient == RecordReceivedSequence(
                                      ClientInfo(addr, NewPlayerData(id, msg.playerName, color)),
                                      msg.sequenceNumber)
                     W1 == [W EXCEPT !.nextPlayerId = @ + 1,
                                     !.clients = With(@, id, newClient)]
                     W2 == SendPlayerIdAssignment(W1, id, addr)
                     W3 == SendGameStateToClient(W2, id)
                 IN SendGameStateToAll(W3)

\* msg: playerId, x, y, bodyRotation, barrelRotation, the four flags,
\* sequenceNumber
HandlePlayerUpdate(W, msg, addr) ==
    IF ~IsValidPlayerId(msg.playerId) THEN W
    ELSE IF ~IsValidPosition(msg.x, msg.y) THEN W
    ELSE IF ~IsValidRotation(msg.bodyRotation) \/ ~IsValidRotation(msg.barrelRotation)
    THEN W
    ELSE IF msg.playerId \notin DOMAIN W.clients THEN W
    ELSE IF W.clients[msg.playerId].address # addr THEN W
    ELSE LET c == W.clients[msg.playerId]
             c1 == [c EXCEPT
                      !.playerData.x = ClampPositionX(msg.x),
                      !.playerData.y = ClampPositionY(msg.y),
                      !.playerData.bodyRotation = NormalizeRotation(msg.bodyRotation),
                      !.playerData.barrelRotation = NormalizeRotation(msg.barrelRotation),
                      !.playerData.isMoving_forward = msg.isMoving_forward,
                      !.playerData.isMoving_backward = msg.isMoving_backward,
                      !.playerData.isMoving_left = msg.isMoving_left,
                      !.playerData.isMoving_right = msg.isMoving_right,
                      !.lastUpdateTime = 0]
         IN [W EXCEPT !.clients[msg.playerId] =
                          RecordReceivedSequence(c1, msg.sequenceNumber)]

\* msg: playerId, the four flags, barrelRotation, sequenceNumber.  The
\* result of ValidateSequenceNumber is only written to the log.
\* a server that takes an input without comparing the sender's address
HandlePlayerInput_AnyAddress(W, msg, addr) ==
    IF ~IsValidPlayerId(msg.playerId) THEN W
    ELSE IF msg.playerId \notin DOMAIN W.clients THEN W
    ELSE LET c == W.clients[msg.playerId]
             c1 == [c EXCEPT
                      !.playerData.isMoving_forward = msg.isMoving_forward,
                      !.playerData.isMoving_backward = msg.isMoving_backward,
                      !.playerData.isMoving_left = msg.isMoving_left,
                      !.playerData.isMoving_right = msg.isMoving_right,
                      !.playerData.barrelRotation = NormalizeRotation(msg.barrelRotation),
                      !.lastUpdateTime = 0]
             c2 == [RecordReceivedSequence(c1, msg.sequenceNumber) EXCEPT
                      !.lastAcknowledgedInputSeq = msg.sequenceNumber]
             W1 == [W EXCEPT !.clients[msg.playerId] = c2]
         IN SendInputAcknowledgment(W1, msg.playerId, msg.sequenceNumber, addr)

HandlePlayerInput(W, msg, addr) ==
    IF ~IsValidPlayerId(msg.playerId) THEN W
    ELSE IF msg.playerId \notin DOMAIN W.clients THEN W
    ELSE IF W.clients[msg.playerId].address # addr THEN W
    ELSE LET c == W.clients[msg.playerId]
             c1 == [c EXCEPT
                      !.playerData.isMoving_forward = msg.isMoving_forward,
                      !.playerData.isMoving_backward = msg.isMoving_backward,
                      !.playerData.isMoving_left = msg.isMoving_left,
                      !.playerData.isMoving_right = msg.isMoving_right,
                      !.playerData.barrelRotation = NormalizeRotation(msg.barrelRotation),
                      !.lastUpdateTime = 0]
             c2 == [RecordReceivedSequence(c1, msg.sequenceNumber) EXCEPT
                      !.lastAcknowledgedInputSeq = msg.sequenceNumber]
             W1 == [W EXCEPT !.clients[msg.playerId] = c2]
         IN SendInputAcknowledgment(W1, msg.playerId, msg.sequenceNumber, addr)

\* msg: timestamp, sequenceNumber
HandlePing(W, msg, addr) ==
    Emit(W, [type |-> "PONG", to |-> {addr},
             originalTimestamp |-> msg.timestamp,
             sequenceNumber |-> msg.sequenceNumber])

\* msg: spawnX, spawnY, directionX, directionY (thousandths), timestampValid
ValidateBulletSpawnRequest(msg) ==
    LET dirLength == ISqrt(msg.directionX * msg.directionX
                           + msg.directionY * msg.directionY)
    IN /\ IsValidPosition(msg.spawnX, msg.spawnY)
       /\ ~(dirLength < 1 \/ dirLength > 2000)
       /\ msg.timestampValid

\* a server that takes a bullet request without looking the sender up
HandleBulletSpawn_AnyOwner(W, msg, addr) ==
    IF ~ValidateBulletSpawnRequest(msg) THEN W
    ELSE SendBulletUpdates(
             [W EXCEPT !.nextBulletId = @ + 1,
                       !.bullets = With(@, W.nextBulletId,
                                        NewBullet("PLAYER_STANDARD", msg.spawnX,
                                                  msg.spawnY, msg.directionX,
                                                  msg.directionY, msg.playerId))])

HandleBulletSpawn(W, msg, addr) ==
    IF msg.playerId \notin DOMAIN W.clients THEN W
    ELSE IF W.clients[msg.playerId].address # addr THEN W
    ELSE IF ~ValidateBulletSpawnRequest(msg) THEN W
    ELSE LET bulletId == W.nextBulletId
             bullet == NewBullet("PLAYER_STANDARD", msg.spawnX, msg.spawnY,
                                 msg.directionX, msg.directionY, msg.playerId)
             W1 == [W EXCEPT !.nextBulletId = @ + 1,
                             !.bullets = With(@, bulletId, bullet)]
         IN SendBulletUpdates(W1)

\* ------------------------------------------------- EnemyTank: statistics
EnemyMaxHealth(t) ==
    CASE t = "RED" -> 100 [] t = "BLACK" -> 200 [] t = "PURPLE" -> 60
      [] t = "ORANGE" -> 300 [] t = "TEAL" -> 80 [] OTHER -> 100

EnemyMovementSpeed(t) ==
    CASE t = "RED" -> 80 [] t = "BLACK" -> 50 [] t = "PURPLE" -> 150
      [] t = "ORANGE" -> 40 [] t = "TEAL" -> 120 [] OTHER -> 80

EnemyRotationSpeed(t) ==
    CASE t = "RED" -> 120 [] t = "BLACK" -> 80 [] t = "PURPLE" -> 200
      [] t = "ORANGE" -> 60 [] t = "TEAL" -> 150 [] OTHER -> 120

EnemyScoreValue(t) ==
    CASE t = "RED" -> 10 [] t = "BLACK" -> 25 [] t = "PURPLE" -> 15
      [] t = "ORANGE" -> 50 [] t = "TEAL" -> 12 [] OTHER -> 10

DetectionRange(t) ==
    CASE t = "RED" -> 400 [] t = "BLACK" -> 350 [] t = "PURPLE" -> 500
      [] t = "ORANGE" -> 300 [] OTHER -> 450

AttackRange(t) ==
    CASE t = "RED" -> 250 [] t = "BLACK" -> 300 [] t = "PURPLE" -> 200
      [] t = "ORANGE" -> 350 [] OTHER -> 220

\* retreatHealthThreshold, in percent
RetreatHealthPercent(t) ==
    CASE t = "RED" -> 30 [] t = "BLACK" -> 20 [] t = "PURPLE" -> 50
      [] t = "ORANGE" -> 15 [] OTHER -> 40

ShootCooldownTime(t) ==
    CASE t = "RED" -> 1500 [] t = "BLACK" -> 2500 [] t = "PURPLE" -> 800
      [] t = "ORANGE" -> 3000 [] OTHER -> 1200

\* (1 - baseAccuracy) * accuracySpreadAngle, in degrees
SpreadAmount(t) ==
    CASE t = "RED" -> 6 [] t = "BLACK" -> 1 [] t = "PURPLE" -> 15
      [] t = "ORANGE" -> 0 [] OTHER -> 3

MaxBurstSize(t) ==
    CASE t = "RED" -> 3 [] t = "BLACK" -> 1 [] t = "PURPLE" -> 5
      [] t = "ORANGE" -> 1 [] OTHER -> 2

\* distance <= (tenths / 10) * range, compared on the squares
WithinTenths(dSq, tenths, range) ==
    dSq * 100 <= (tenths * range) * (tenths * range)

\* EnemyTank::EnemyTank with InitializeStats, InitializeAIParameters and
\* InitializeShootingParameters; wp is the waypoint drawn by
\* GenerateNewPatrolWaypoint
NewEnemy(t, x, y, wp) ==
    [enemyType |-> t, x |-> x, y |-> y,
     bodyRotation |-> 0, barrelRotation |-> 0,
     currentHealth |-> EnemyMaxHealth(t), maxHealth |-> EnemyMaxHealth(t),
     currentAIState |-> "PATROL", stateTimer |-> 0,
     shootCooldown |-> 0, shotsInBurst |-> 0,
     targetPlayerId |-> 0, lastKnownX |-> x, lastKnownY |-> y,
     patrolX |-> wp.x, patrolY |-> wp.y, patrolWaitTimer |-> 0]

EnemyIsDead(e) == e.currentHealth <= 0

HasTarget(e) == e.targetPlayerId # 0

CanShoot(e) == e.shootCooldown <= 0

\* currentHealth / maxHealth <= retreatHealthThreshold
ShouldRetreat(e) ==
    e.currentHealth * 100 <= RetreatHealthPercent(e.enemyType) * e.maxHealth

TakeDamage(e, damage) ==
    IF damage < 0 THEN e
    ELSE [e EXCEPT !.currentHealth = Max(0, @ - damage)]

SelectNewTarget(e, playerId, px, py) ==
    IF playerId = 0
    THEN [e EXCEPT !.targetPlayerId = 0, !.lastKnownX = e.x, !.lastKnownY = e.y]
    ELSE [e EXCEPT !.targetPlayerId = playerId, !.lastKnownX = px, !.lastKnownY = py]

ClearTarget(e) ==
    [e EXCEPT !.targetPlayerId = 0, !.lastKnownX = e.x, !.lastKnownY = e.y]

GenerateNewPatrolWaypoint(e, wp) == [e EXCEPT !.patrolX = wp.x, !.patrolY = wp.y]

SetAIState(e, newState, wp) ==
    IF e.currentAIState = newState THEN e
    ELSE LET e1 == [e EXCEPT !.currentAIState = newState, !.stateTimer = 0]
         IN CASE newState = "IDLE" -> [e1 EXCEPT !.targetPlayerId = 0]
              [] newState = "PATROL" ->
                    [GenerateNewPatrolWaypoint(e1, wp) EXCEPT !.patrolWaitTimer = 0]
              [] newState = "CHASE" -> [e1 EXCEPT !.patrolWaitTimer = 0]
              [] OTHER -> e1

CalculateDistanceSq(e, tx, ty) == DistSq(tx, ty, e.x, e.y)

CalculateAngleTo(e, tx, ty) == NormalizeRotation(Atan2Deg(ty - e.y, tx - e.x))

HasReachedWaypoint(e) ==
    CalculateDistanceSq(e, e.patrolX, e.patrolY) <= 50 * 50

RotateTowards(e, tx, ty, dt) ==
    LET Turn(targetAngle, currentAngle, rotationStep) ==
            LET d0 == targetAngle - currentAngle
                d1 == IF d0 > 180 THEN d0 - 360 ELSE d0
                angleDiff == IF d1 < -180 THEN d1 + 360 ELSE d1
            IN IF Abs(angleDiff) < rotationStep
               THEN [e EXCEPT !.bodyRotation = targetAngle]
               ELSE IF angleDiff > 0
               THEN [e EXCEPT !.bodyRotation = currentAngle + rotationStep]
               ELSE [e EXCEPT !.bodyRotation = currentAngle - rotationStep]
    IN Turn(CalculateAngleTo(e, tx, ty), NormalizeRotation(e.bodyRotation),
            Travel(EnemyRotationSpeed(e.enemyType), dt))

\* a move without the final clamp
ClampToMovementRect_None(e) == e

ClampToMovementRect(e) ==
    [e EXCEPT !.x = Clamp(@, MOVEMENT_MIN_X, MOVEMENT_MAX_X),
              !.y = Clamp(@, MOVEMENT_MIN_Y, MOVEMENT_MAX_Y)]

MoveTowards(e, tx, ty, dt) ==
    LET Advance(e1, step1) ==
            IF CalculateDistanceSq(e1, tx, ty) > 50 * 50
            THEN ClampToMovementRect(
                   [e1 EXCEPT !.x = @ + Quot(Cos1000(e1.bodyRotation) * step1, 1000),
                              !.y = @ + Quot(Sin1000(e1.bodyRotation) * step1, 1000)])
            ELSE e1
    IN Advance(RotateTowards(e, tx, ty, dt),
               Travel(EnemyMovementSpeed(e.enemyType), dt))

MoveAwayFrom(e, tx, ty, dt) ==
    LET ax == e.x - tx
        ay == e.y - ty
        Away(length) ==
            LET ux == IF length = 0 THEN 1000 ELSE Quot(ax * 1000, length)
                uy == IF length = 0 THEN 0 ELSE Quot(ay * 1000, length)
            IN MoveTowards(e, e.x + Quot(ux * 300, 1000),
                           e.y + Quot(uy * 300, 1000), dt)
    IN Away(ISqrt(ax * ax + ay * ay))

IsPositionSafe(x, y) ==
    /\ x > 80 /\ x < WORLD_WIDTH - 80
    /\ y > 80 /\ y < WORLD_HEIGHT - 80

MoveTowardsWithAvoidance(e, tx, ty, dt) ==
    LET Normalized(v, length) == IF length > 1 THEN Quot(v * 1000, length) ELSE v
        Blend(e1, bx, by, slow) ==
            [e1 EXCEPT !.x = @ + Quot(Normalized(bx, ISqrt(bx * bx + by * by)) * slow, 1000),
                       !.y = @ + Quot(Normalized(by, ISqrt(bx * bx + by * by)) * slow, 1000)]
        Weighted(e1, dirX, dirY, ucx, ucy, centerWeight, slow) ==
            Blend(e1, Quot(dirX * (1000 - centerWeight) + ucx * centerWeight, 1000),
                      Quot(dirY * (1000 - centerWeight) + ucy * centerWeight, 1000), slow)
        Steer(e1, step1, dirX, dirY, cx, cy, toCenterLength) ==
            LET ix == e1.x + Quot(dirX * step1, 1000)
                iy == e1.y + Quot(dirY * step1, 1000)
                edgeDistance == Min(CENTER_X - Abs(e1.x - CENTER_X),
                                    CENTER_Y - Abs(e1.y - CENTER_Y))
            IN IF CalculateDistanceSq(e1, tx, ty) > 50 * 50
               THEN ClampToMovementRect(
                      IF IsPositionSafe(ix, iy) THEN [e1 EXCEPT !.x = ix, !.y = iy]
                      ELSE IF toCenterLength > 0
                      THEN Weighted(e1, dirX, dirY,
                                    Quot(cx * 1000, Max(1, toCenterLength)),
                                    Quot(cy * 1000, Max(1, toCenterLength)),
                                    Max(0, 1000 - 5 * edgeDistance),
                                    Quot(step1 * 7, 10))
                      ELSE e1)
               ELSE e1
        Turned(e1, step1) ==
            Steer(e1, step1, Cos1000(e1.bodyRotation), Sin1000(e1.bodyRotation),
                  CENTER_X - e1.x, CENTER_Y - e1.y,
                  ISqrt((CENTER_X - e1.x) * (CENTER_X - e1.x)
                        + (CENTER_Y - e1.y) * (CENTER_Y - e1.y)))
    IN Turned(RotateTowards(e, tx, ty, dt),
              Travel(EnemyMovementSpeed(e.enemyType), dt))

\* ------------------------------------------------- EnemyTank: behaviour
\* rnd holds the values the random generators return during one Update:
\* waypoint (GenerateNewPatrolWaypoint), interior
\* (GenerateSafeInteriorPosition), spread (ApplyAccuracySpread)

UpdateCooldown(e, dt) ==
    IF e.shootCooldown > 0
    THEN [e EXCEPT !.shootCooldown = Max(0, @ - dt)]
    ELSE e

\* a tank whose burst never ends: each shot restarts the plain cooldown
TryShoot_FlatCooldown(e) ==
    IF ~CanShoot(e) THEN e
    ELSE IF e.currentAIState # "ATTACK" THEN e
    ELSE [e EXCEPT !.shootCooldown = ShootCooldownTime(e.enemyType),
                   !.shotsInBurst = @ + 1]

TryShoot(e) ==
    IF ~CanShoot(e) THEN e
    ELSE IF e.currentAIState # "ATTACK" THEN e
    ELSE LET t == e.enemyType
         IN IF e.shotsInBurst + 1 >= MaxBurstSize(t)
            THEN [e EXCEPT !.shootCooldown = Quot(ShootCooldownTime(t) * 3, 2),
                           !.shotsInBurst = 0]
            ELSE [e EXCEPT !.shootCooldown = ShootCooldownTime(t),
                           !.shotsInBurst = @ + 1]

UpdateIdleState(e, dt, rnd) ==
    LET e1 == [e EXCEPT !.barrelRotation = @ + Travel(20, dt)]
    IN IF e1.stateTimer > 3000 THEN SetAIState(e1, "PATROL", rnd.waypoint) ELSE e1

UpdatePatrolState(e, dt, rnd) ==
    IF HasTarget(e)
       /\ WithinTenths(CalculateDistanceSq(e, e.lastKnownX, e.lastKnownY), 10,
                       DetectionRange(e.enemyType))
    THEN SetAIState(e, "CHASE", rnd.waypoint)
    ELSE IF HasReachedWaypoint(e)
    THEN LET e1 == [e EXCEPT !.patrolWaitTimer = @ + dt]
             e2 == IF e1.patrolWaitTimer >= 2000
                   THEN [GenerateNewPatrolWaypoint(e1, rnd.waypoint)
                           EXCEPT !.patrolWaitTimer = 0]
                   ELSE e1
         IN [e2 EXCEPT !.barrelRotation = @ + Travel(30, dt)]
    ELSE LET Aim(e1) ==
                 [e1 EXCEPT !.barrelRotation = CalculateAngleTo(e1, e1.patrolX, e1.patrolY)]
         IN Aim(MoveTowardsWithAvoidance(e, e.patrolX, e.patrolY, dt))

UpdateChaseState(e, dt, rnd) ==
    IF ~HasTarget(e) THEN e
    ELSE LET dSq == CalculateDistanceSq(e, e.lastKnownX, e.lastKnownY)
         IN IF WithinTenths(dSq, 7, AttackRange(e.enemyType))
            THEN SetAIState(e, "ATTACK", rnd.waypoint)
            ELSE IF ~WithinTenths(dSq, 15, DetectionRange(e.enemyType))
            THEN SetAIState(ClearTarget(e), "PATROL", rnd.waypoint)
            ELSE LET Aim(e1) ==
                         [e1 EXCEPT !.barrelRotation =
                                        CalculateAngleTo(e1, e1.lastKnownX, e1.lastKnownY)]
                 IN Aim(MoveTowardsWithAvoidance(e, e.lastKnownX, e.lastKnownY, dt))

UpdateAttackState(e, dt, rnd) ==
    IF ~HasTarget(e) THEN SetAIState(e, "PATROL", rnd.waypoint)
    ELSE LET dSq == CalculateDistanceSq(e, e.lastKnownX, e.lastKnownY)
             att == AttackRange(e.enemyType)
         IN IF ~WithinTenths(dSq, 15, att)
            THEN SetAIState(e, "CHASE", rnd.waypoint)
            ELSE LET aimThreshold == IF ~WithinTenths(dSq, 8, att) THEN 75
                                     ELSE IF ~WithinTenths(dSq, 5, att) THEN 60
                                     ELSE 45
                     Fire(e2, a0) ==
                         LET angleDiff == IF a0 > 180 THEN 360 - a0 ELSE a0
                         IN IF angleDiff <= aimThreshold /\ CanShoot(e2)
                            THEN TryShoot(e2) ELSE e2
                     Aimed(e2, targetAngle) ==
                         Fire(e2, Abs(NormalizeRotation(targetAngle)
                                      - NormalizeRotation(e2.barrelRotation)))
                     Aim(e1, targetAngle) ==
                         Aimed([e1 EXCEPT !.barrelRotation = targetAngle], targetAngle)
                     Positioned(e1) ==
                         Aim(e1, CalculateAngleTo(e1, e1.lastKnownX, e1.lastKnownY))
                 IN Positioned(
                        IF dSq * 100 < (6 * att) * (6 * att)
                        THEN MoveAwayFrom(e, e.lastKnownX, e.lastKnownY, dt)
                        ELSE IF ~WithinTenths(dSq, 11, att)
                        THEN MoveTowardsWithAvoidance(e, e.lastKnownX,
                                                      e.lastKnownY, dt)
                        ELSE RotateTowards(e, e.lastKnownX, e.lastKnownY, dt))

\* 60 % away from the threat, 40 % toward the middle of the movement
\* rectangle, 200 units far, kept 100 units inside the rectangle
CalculateSafeRetreatPosition(e, tx, ty) ==
    LET ax == e.x - tx
        ay == e.y - ty
        cx == (MOVEMENT_MIN_X + MOVEMENT_MAX_X) \div 2 - e.x
        cy == (MOVEMENT_MIN_Y + MOVEMENT_MAX_Y) \div 2 - e.y
        Target(nbx, nby) ==
            [x |-> Clamp(e.x + Quot(nbx * 200, 1000),
                         MOVEMENT_MIN_X + 100, MOVEMENT_MAX_X - 100),
             y |-> Clamp(e.y + Quot(nby * 200, 1000),
                         MOVEMENT_MIN_Y + 100, MOVEMENT_MAX_Y - 100)]
        Normalized(bx, by, blendLength) ==
            Target(IF blendLength > 1 THEN Quot(bx * 1000, blendLength) ELSE bx,
                   IF blendLength > 1 THEN Quot(by * 1000, blendLength) ELSE by)
        Blended(bx, by) == Normalized(bx, by, ISqrt(bx * bx + by * by))
        Mixed(ux, uy, vx, vy) ==
            Blended(Quot(ux * 6 + vx * 4, 10), Quot(uy * 6 + vy * 4, 10))
        Unit(length, centerDist) ==
            Mixed(IF length > 0 THEN Quot(ax * 1000, length) ELSE 1000,
                  IF length > 0 THEN Quot(ay * 1000, length) ELSE 0,
                  IF centerDist > 0 THEN Quot(cx * 1000, centerDist) ELSE cx,
                  IF centerDist > 0 THEN Quot(cy * 1000, centerDist) ELSE cy)
    IN Unit(ISqrt(ax * ax + ay * ay), ISqrt(cx * cx + cy * cy))

\* the corner, 130 units inside the movement rectangle, farthest from the
\* enemy; ties go to the earlier of TL, TR, BL, BR
SelectSafeCorner(e) ==
    LET corners == << [x |-> MOVEMENT_MIN_X + 130, y |-> MOVEMENT_MIN_Y + 130],
                      [x |-> MOVEMENT_MAX_X - 130, y |-> MOVEMENT_MIN_Y + 130],
                      [x |-> MOVEMENT_MIN_X + 130, y |-> MOVEMENT_MAX_Y - 130],
                      [x |-> MOVEMENT_MAX_X - 130, y |-> MOVEMENT_MAX_Y - 130] >>
        d(i) == CalculateDistanceSq(e, corners[i].x, corners[i].y)
        best == CHOOSE i \in 1..4 :
                   /\ \A j \in 1..4 : d(j) <= d(i)
                   /\ \A j \in 1..(i - 1) : d(j) < d(i)
    IN corners[best]

UpdateRetreatState(e, dt, rnd) ==
    IF ~ShouldRetreat(e) THEN SetAIState(e, "PATROL", rnd.waypoint)
    ELSE LET minBoundaryDist ==
                 Min(Min(e.x - MOVEMENT_MIN_X, MOVEMENT_MAX_X - e.x),
                     Min(e.y - MOVEMENT_MIN_Y, MOVEMENT_MAX_Y - e.y))
             stuckAtBoundary == minBoundaryDist < 50
         IN IF HasTarget(e)
            THEN LET Aim(e1) ==
                         [e1 EXCEPT !.barrelRotation =
                                        CalculateAngleTo(e1, e1.lastKnownX, e1.lastKnownY)]
                     Escape(rp) == MoveTowardsWithAvoidance(e, rp.x, rp.y, dt)
                 IN Aim(IF stuckAtBoundary
                        THEN Escape(CalculateSafeRetreatPosition(e, e.lastKnownX,
                                                                 e.lastKnownY))
                        ELSE MoveAwayFrom(e, e.lastKnownX, e.lastKnownY, dt))
            ELSE IF stuckAtBoundary
            THEN MoveTowardsWithAvoidance(e, rnd.interior.x, rnd.interior.y, dt)
            ELSE LET ToCorner(c) == MoveTowardsWithAvoidance(e, c.x, c.y, dt)
                 IN ToCorner(SelectSafeCorner(e))

\* an AI update without the retreat check ahead of the state behaviour
UpdateAIBehavior_NoRetreatCheck(e, dt, rnd) ==
    LET Track(e2) ==
            IF HasTarget(e2)
            THEN [e2 EXCEPT !.barrelRotation =
                                CalculateAngleTo(e2, e2.lastKnownX, e2.lastKnownY)]
            ELSE e2
        Behave(e1) ==
            Track(CASE e1.currentAIState = "IDLE" -> UpdateIdleState(e1, dt, rnd)
                    [] e1.currentAIState = "PATROL" -> UpdatePatrolState(e1, dt, rnd)
                    [] e1.currentAIState = "CHASE" -> UpdateChaseState(e1, dt, rnd)
                    [] e1.currentAIState = "ATTACK" -> UpdateAttackState(e1, dt, rnd)
                    [] OTHER -> UpdateRetreatState(e1, dt, rnd))
    IN Behave([e EXCEPT !.stateTimer = @ + dt])

UpdateAIBehavior(e, dt, rnd) ==
    LET Track(e2) ==
            IF HasTarget(e2)
            THEN [e2 EXCEPT !.barrelRotation =
                                CalculateAngleTo(e2, e2.lastKnownX, e2.lastKnownY)]
            ELSE e2
        Behave(e1) ==
            Track(CASE e1.currentAIState = "IDLE" -> UpdateIdleState(e1, dt, rnd)
                    [] e1.currentAIState = "PATROL" -> UpdatePatrolState(e1, dt, rnd)
                    [] e1.currentAIState = "CHASE" -> UpdateChaseState(e1, dt, rnd)
                    [] e1.currentAIState = "ATTACK" -> UpdateAttackState(e1, dt, rnd)
                    [] OTHER -> UpdateRetreatState(e1, dt, rnd))
        Timed(e0) ==
            Behave(IF ShouldRetreat(e0) /\ e0.currentAIState # "RETREAT"
                   THEN SetAIState(e0, "RETREAT", rnd.waypoint) ELSE e0)
    IN Timed([e EXCEPT !.stateTimer = @ + dt])

\* EnemyTank::Update
EnemyUpdate(e, dt, rnd) == UpdateAIBehavior(UpdateCooldown(e, dt), dt, rnd)

GetBarrelEndPosition(e) ==
    [x |-> e.x + Quot(Cos1000(e.barrelRotation) * 20, 1000),
     y |-> e.y + Quot(Sin1000(e.barrelRotation) * 20, 1000)]

\* GetAimDirection turned by the drawn offset: ApplyAccuracySpread, as an
\* angle in degrees; the drawn offset is spread * SpreadAmount with spread
\* in -1 .. 1
SpreadAimAngle(e, spread) ==
    e.barrelRotation + spread * SpreadAmount(e.enemyType)

\* ------------------------------------------------- GameServer: simulation
\* a server that lets a driving tank leave the movement rectangle
SimulatePlayer_Unclamped(player, dt) ==
    LET turn == Travel(ROTATION_SPEED, dt)
        Place(rot, x1, y1) ==
            [player EXCEPT !.bodyRotation = rot,
                           !.x = x1,
                           !.y = y1]
        Drive(rot, mx, my) ==
            Place(rot,
                  IF player.isMoving_forward THEN player.x + mx
                  ELSE IF player.isMoving_backward THEN player.x - mx
                  ELSE player.x,
                  IF player.isMoving_forward THEN player.y + my
                  ELSE IF player.isMoving_backward THEN player.y - my
                  ELSE player.y)
        Turned(rot, run) ==
            Drive(rot, Quot(Cos1000(rot) * run, 1000), Quot(Sin1000(rot) * run, 1000))
    IN Turned(RotDown(RotUp(IF player.isMoving_left THEN player.bodyRotation - turn
                            ELSE IF player.isMoving_right THEN player.bodyRotation + turn
                            ELSE player.bodyRotation)),
              Travel(MOVEMENT_SPEED, dt))

SimulatePlayer(player, dt) ==
    LET turn == Travel(ROTATION_SPEED, dt)
        Place(rot, x1, y1) ==
            [player EXCEPT !.bodyRotation = rot,
                           !.x = Clamp(x1, MOVEMENT_MIN_X, MOVEMENT_MAX_X),
                           !.y = Clamp(y1, MOVEMENT_MIN_Y, MOVEMENT_MAX_Y)]
        Drive(rot, mx, my) ==
            Place(rot,
                  IF player.isMoving_forward THEN player.x + mx
                  ELSE IF player.isMoving_backward THEN player.x - mx
                  ELSE player.x,
                  IF player.isMoving_forward THEN player.y + my
                  ELSE IF player.isMoving_backward THEN player.y - my
                  ELSE player.y)
        Turned(rot, run) ==
            Drive(rot, Quot(Cos1000(rot) * run, 1000), Quot(Sin1000(rot) * run, 1000))
    IN Turned(RotDown(RotUp(IF player.isMoving_left THEN player.bodyRotation - turn
                            ELSE IF player.isMoving_right THEN player.bodyRotation + turn
                            ELSE player.bodyRotation)),
              Travel(MOVEMENT_SPEED, dt))

SimulatePlayerMovement(W, dt) ==
    [W EXCEPT !.clients =
        [id \in DOMAIN W.clients |->
            IF W.clients[id].isActive
            THEN [W.clients[id] EXCEPT !.playerData = SimulatePlayer(@, dt)]
            ELSE W.clients[id]]]

\* proximityScore * 100 + healthFactor * 20, in thousandths
TargetScore(e, client) ==
    LET distance == ISqrt(DistSq(client.playerData.x, client.playerData.y, e.x, e.y))
    IN (100000 - Quot(distance * 100000, DetectionRange(e.enemyType)))
       + (20000 - Quot(client.playerData.health * 20000, client.playerData.maxHealth))

RECURSIVE BestTarget(_, _, _, _, _)
BestTarget(cs, e, ids, bestTarget, bestScore) ==
    IF ids = <<>> THEN bestTarget
    ELSE LET id == Head(ids)
             c == cs[id]
             det == DetectionRange(e.enemyType)
             skip == \/ ~c.isActive
                     \/ DistSq(c.playerData.x, c.playerData.y, e.x, e.y) > det * det
         IN IF ~skip /\ TargetScore(e, c) > bestScore
            THEN BestTarget(cs, e, Tail(ids), id, TargetScore(e, c))
            ELSE BestTarget(cs, e, Tail(ids), bestTarget, bestScore)

SelectTargetForEnemy(W, e) == BestTarget(W.clients, e, Keys(W.clients), 0, -1)

UpdateEnemyTargetPosition(W, e) ==
    LET targetId == e.targetPlayerId
    IN IF ~HasTarget(e) THEN e
       ELSE IF targetId \notin DOMAIN W.clients \/ ~W.clients[targetId].isActive
       THEN ClearTarget(e)
       ELSE LET pd == W.clients[targetId].playerData
            IN IF ~WithinTenths(DistSq(pd.x, pd.y, e.x, e.y), 20,
                                DetectionRange(e.enemyType))
               THEN ClearTarget(e)
               ELSE SelectNewTarget(e, targetId, pd.x, pd.y)

BroadcastEnemyBulletSpawn(W, bulletId, x, y, dirX, dirY, ownerId) ==
    LET m == [type |-> "BULLET_SPAWN", to |-> ActiveAddresses(W.clients),
              playerId |-> ownerId,
              spawnX |-> x, spawnY |-> y,
              directionX |-> dirX, directionY |-> dirY,
              sequenceNumber |-> W.outgoingSequenceNumber]
    IN [Emit(W, m) EXCEPT !.outgoingSequenceNumber = @ + 1]

SpawnEnemyBullet(W, enemyId, e, rnd) ==
    LET bulletId == W.nextBulletId
        Fire(pos, dirX, dirY) ==
            BroadcastEnemyBulletSpawn(
                [W EXCEPT !.nextBulletId = @ + 1,
                          !.bullets = With(@, bulletId,
                                           NewBullet("ENEMY_STANDARD", pos.x, pos.y,
                                                     dirX, dirY, enemyId))],
                bulletId, pos.x, pos.y, dirX, dirY, enemyId)
        Aim(pos, angle) == Fire(pos, Cos1000(angle), Sin1000(angle))
    IN Aim(GetBarrelEndPosition(e), SpreadAimAngle(e, rnd.spread))

SpawnEnemy(W, rnd) ==
    [W EXCEPT !.nextEnemyId = @ + 1,
              !.enemies = With(@, W.nextEnemyId,
                               NewEnemy(rnd.enemyType, rnd.spawn.x, rnd.spawn.y,
                                        rnd.waypoint))]

RemoveDeadEnemies(W) ==
    [W EXCEPT !.enemies =
        [id \in {j \in DOMAIN W.enemies : ~EnemyIsDead(W.enemies[j])} |->
            W.enemies[id]]]

\* the body of the loop over the enemies in UpdateEnemies
UpdateOneEnemy(W, enemyId, dt, rnd) ==
    LET e == W.enemies[enemyId]
        Shoot(W1, e2, enemyJustShot) ==
            IF enemyJustShot THEN SpawnEnemyBullet(W1, enemyId, e2, rnd) ELSE W1
        Updated(cooldownBefore, e2, cooldownAfter) ==
            Shoot([W EXCEPT !.enemies[enemyId] = e2], e2,
                  /\ cooldownAfter > cooldownBefore
                  /\ cooldownAfter - cooldownBefore > SHOT_JUMP)
        Shot(cooldownBefore, e2) == Updated(cooldownBefore, e2, e2.shootCooldown)
        Targeted(e1) == Shot(e1.shootCooldown, EnemyUpdate(e1, dt, rnd))
        Selected(targetId) ==
            Targeted(IF ~HasTarget(e)
                     THEN IF targetId # 0 /\ targetId \in DOMAIN W.clients
                             /\ W.clients[targetId].isActive
                          THEN SelectNewTarget(e, targetId,
                                               W.clients[targetId].playerData.x,
                                               W.clients[targetId].playerData.y)
                          ELSE e
                     ELSE UpdateEnemyTargetPosition(W, e))
    IN Selected(SelectTargetForEnemy(W, e))

RECURSIVE UpdateEnemyLoop(_, _, _, _)
UpdateEnemyLoop(W, ids, dt, rnd) ==
    IF ids = <<>> THEN W
    ELSE IF Head(ids) \notin DOMAIN W.enemies      \* if (!enemy) continue
    THEN UpdateEnemyLoop(W, Tail(ids), dt, rnd)
    ELSE UpdateEnemyLoop(UpdateOneEnemy(W, Head(ids), dt, rnd), Tail(ids), dt, rnd)

ActivePlayerCount(cs) ==
    Cardinality({id \in DOMAIN cs : cs[id].isActive /\ ~cs[id].isDead})

DynamicMaxEnemies(cs) ==
    3 * (IF ActivePlayerCount(cs) > 0 THEN 1 ELSE 0) + ActivePlayerCount(cs)

ShouldSpawnEnemy(W) ==
    /\ W.enemySpawnTimer >= enemySpawnInterval
    /\ Cardinality(DOMAIN W.enemies) < DynamicMaxEnemies(W.clients)

UpdateEnemies(W, dt, rnd) ==
    LET Each(W1) == UpdateEnemyLoop(W1, Keys(W1.enemies), dt, rnd)
        Spawn(W0) == Each(IF ShouldSpawnEnemy(W0)
                          THEN [SpawnEnemy(W0, rnd) EXCEPT !.enemySpawnTimer = 0]
                          ELSE W0)
    IN RemoveDeadEnemies(Spawn([W EXCEPT !.enemySpawnTimer = @ + dt]))

\* ------------------------------------------------- GameServer: bullets
\* Bullet::Update
BulletUpdate(b, dt) ==
    IF b.isDestroyed THEN b
    ELSE LET life == b.lifetime - dt
         IN [b EXCEPT !.x = @ + Quot(b.vx * dt, 1000),
                      !.y = @ + Quot(b.vy * dt, 1000),
                      !.lifetime = life,
                      !.isDestroyed = (life <= 0)]

IsExpired(b) == b.lifetime <= 0 \/ b.isDestroyed

\* the first enemy, in map order, that is alive and touched by the bullet;
\* 0 when there is none
RECURSIVE FirstEnemyHit(_, _, _)
FirstEnemyHit(W, b, ids) ==
    IF ids = <<>> THEN 0
    ELSE LET e == W.enemies[Head(ids)]
             radiusSum == BulletRadius(b.bulletType) + ENEMY_TANK_RADIUS
         IN IF ~EnemyIsDead(e) /\ DistSq(b.x, b.y, e.x, e.y) < radiusSum * radiusSum
            THEN Head(ids)
            ELSE FirstEnemyHit(W, b, Tail(ids))

\* the first client, in map order, that is active and touched by the bullet
RECURSIVE FirstPlayerHit(_, _, _)
FirstPlayerHit(W, b, ids) ==
    IF ids = <<>> THEN 0
    ELSE LET c == W.clients[Head(ids)]
             radiusSum == BulletRadius(b.bulletType) + TANK_RADIUS
         IN IF c.isActive
               /\ DistSq(b.x, b.y, c.playerData.x, c.playerData.y)
                    < radiusSum * radiusSum
            THEN Head(ids)
            ELSE FirstPlayerHit(W, b, Tail(ids))

\* a server that pays the score value for every hit
AwardKill_EveryHit(cs, ownerId, enemyAfter, oldHealth) ==
    IF oldHealth > 0 /\ ownerId \in DOMAIN cs
    THEN LET newScore == cs[ownerId].score + EnemyScoreValue(enemyAfter.enemyType)
         IN [cs EXCEPT ![ownerId].score = newScore,
                       ![ownerId].playerData.score = newScore]
    ELSE cs

\* score for the kill: the owner's score rises when this hit took the enemy
\* from above zero to zero and the owner is still a client
AwardKill(cs, ownerId, enemyAfter, oldHealth) ==
    IF EnemyIsDead(enemyAfter) /\ oldHealth > 0 /\ ownerId \in DOMAIN cs
    THEN LET newScore == cs[ownerId].score + EnemyScoreValue(enemyAfter.enemyType)
         IN [cs EXCEPT ![ownerId].score = newScore,
                       ![ownerId].playerData.score = newScore]
    ELSE cs

OutsidePlayable(b) ==
    \/ b.x < PLAYABLE_MIN_X \/ b.x > PLAYABLE_MIN_X + PLAYABLE_WIDTH
    \/ b.y < PLAYABLE_MIN_Y \/ b.y > PLAYABLE_MIN_Y + PLAYABLE_HEIGHT

\* a server whose loop over the clients does not stop at the first hit: the
\* bullet hurts every active client it touches
CollideOneBullet_Piercing(W, bulletId) ==
    LET b == W.bullets[bulletId]
        isEnemyBullet == b.ownerId >= ENEMY_ID_BOUNDARY
        enemyId == IF isEnemyBullet THEN 0 ELSE FirstEnemyHit(W, b, Keys(W.enemies))
        playerId == IF isEnemyBullet THEN FirstPlayerHit(W, b, Keys(W.clients)) ELSE 0
        destroyed == [W EXCEPT !.bullets[bulletId].isDestroyed = TRUE]
        touched == {p \in DOMAIN W.clients :
                       FirstPlayerHit(W, b, <<p>>) = p}
    IN IF b.isDestroyed THEN W
       ELSE IF enemyId # 0
       THEN LET old == W.enemies[enemyId]
                hit == TakeDamage(old, BulletDamage(b.bulletType))
                W1 == [destroyed EXCEPT
                          !.enemies[enemyId] = hit,
                          !.clients = AwardKill(@, b.ownerId, hit, old.currentHealth)]
            IN BroadcastBulletDestruction(W1, bulletId, 2, enemyId, b.x, b.y)
       ELSE IF playerId # 0
       THEN LET W1 == [destroyed EXCEPT
                          !.clients = [p \in DOMAIN @ |->
                              IF p \in touched
                              THEN [@[p] EXCEPT !.playerData.health =
                                       Max(0, @ - BulletDamage(b.bulletType))]
                              ELSE @[p]]]
            IN BroadcastBulletDestruction(W1, bulletId, 1, playerId, b.x, b.y)
       ELSE IF OutsidePlayable(b)
       THEN BroadcastBulletDestruction(destroyed, bulletId, 3, 0, b.x, b.y)
       ELSE W

\* the body of the loop over the bullets in CheckBulletCollisions
CollideOneBullet(W, bulletId) ==
    LET b == W.bullets[bulletId]
        isEnemyBullet == b.ownerId >= ENEMY_ID_BOUNDARY
        enemyId == IF isEnemyBullet THEN 0 ELSE FirstEnemyHit(W, b, Keys(W.enemies))
        playerId == IF isEnemyBullet THEN FirstPlayerHit(W, b, Keys(W.clients)) ELSE 0
        destroyed == [W EXCEPT !.bullets[bulletId].isDestroyed = TRUE]
    IN IF b.isDestroyed THEN W
       ELSE IF enemyId # 0
       THEN LET old == W.enemies[enemyId]
                hit == TakeDamage(old, BulletDamage(b.bulletType))
                W1 == [destroyed EXCEPT
                          !.enemies[enemyId] = hit,
                          !.clients = AwardKill(@, b.ownerId, hit, old.currentHealth)]
            IN BroadcastBulletDestruction(W1, bulletId, 2, enemyId, b.x, b.y)
       ELSE IF playerId # 0
       THEN LET W1 == [destroyed EXCEPT
                          !.clients[playerId].playerData.health =
                              Max(0, @ - BulletDamage(b.bulletType))]
            IN BroadcastBulletDestruction(W1, bulletId, 1, playerId, b.x, b.y)
       ELSE IF OutsidePlayable(b)
       THEN BroadcastBulletDestruction(destroyed, bulletId, 3, 0, b.x, b.y)
       ELSE W

RECURSIVE CollideLoop(_, _)
CollideLoop(W, ids) ==
    IF ids = <<>> THEN W
    ELSE IF Head(ids) \notin DOMAIN W.bullets      \* if (!bullet) continue
    THEN CollideLoop(W, Tail(ids))
    ELSE CollideLoop(CollideOneBullet(W, Head(ids)), Tail(ids))

CheckBulletCollisions(W) == CollideLoop(W, Keys(W.bullets))

RECURSIVE RemoveLoop(_, _)
RemoveLoop(W, ids) ==
    IF ids = <<>> THEN W
    ELSE LET id == Head(ids)
             b == W.bullets[id]
             W1 == IF IsExpired(b)
                   THEN [(IF ~b.isDestroyed
                          THEN BroadcastBulletDestruction(W, id, 0, 0, b.x, b.y)
                          ELSE W)
                         EXCEPT !.bullets = Without(@, id)]
                   ELSE W
         IN RemoveLoop(W1, Tail(ids))

\* a server that skips the removal pass
RemoveDeadBullets_Skipped(W) == W

RemoveDeadBullets(W) == RemoveLoop(W, Keys(W.bullets))

UpdateBullets(W, dt) ==
    LET W1 == [W EXCEPT !.bullets =
                  [id \in DOMAIN W.bullets |-> BulletUpdate(W.bullets[id], dt)]]
    IN RemoveDeadBullets(CheckBulletCollisions(W1))

\* ------------------------------------------------- GameServer: separation
ClampPlayer(pd) ==
    [pd EXCEPT !.x = Clamp(@, MOVEMENT_MIN_X, MOVEMENT_MAX_X),
               !.y = Clamp(@, MOVEMENT_MIN_Y, MOVEMENT_MAX_Y)]

\* the player's position pushed out of one enemy; pos is the running
\* playerPos of the loop
PushFromEnemy(pos, e, dt) ==
    LET dx == pos.x - e.x
        dy == pos.y - e.y
        distSq == dx * dx + dy * dy
        minDist == TANK_RADIUS + ENEMY_TANK_RADIUS + MIN_SEPARATION
        currentDist == ISqrt(distSq)
        separationAmount == Min(minDist - currentDist, Travel(SEPARATION_SPEED, dt))
    IN IF currentDist = 0 THEN [x |-> pos.x + minDist, y |-> pos.y]
       ELSE [x |-> pos.x + Quot(dx * separationAmount, currentDist),
             y |-> pos.y + Quot(dy * separationAmount, currentDist)]

\* the inner loop over the enemies for one player: st.pos is playerPos,
\* st.pd the stored record
RECURSIVE SeparateFromEnemies(_, _, _, _)
SeparateFromEnemies(st, W, ids, dt) ==
    IF ids = <<>> THEN st
    ELSE LET e == W.enemies[Head(ids)]
             minDist == TANK_RADIUS + ENEMY_TANK_RADIUS + MIN_SEPARATION
             hit == /\ ~EnemyIsDead(e)
                    /\ DistSq(st.pos.x, st.pos.y, e.x, e.y) < minDist * minDist
             pos1 == PushFromEnemy(st.pos, e, dt)
             st1 == IF hit
                    THEN [pos |-> pos1,
                          pd |-> ClampPlayer([st.pd EXCEPT !.x = pos1.x, !.y = pos1.y])]
                    ELSE st
         IN SeparateFromEnemies(st1, W, Tail(ids), dt)

SeparatePlayersFromEnemies(W, dt) ==
    [W EXCEPT !.clients =
        [id \in DOMAIN W.clients |->
            IF W.clients[id].isActive
            THEN LET pd == W.clients[id].playerData
                 IN [W.clients[id] EXCEPT !.playerData =
                        SeparateFromEnemies([pos |-> [x |-> pd.x, y |-> pd.y], pd |-> pd],
                                            W, Keys(W.enemies), dt).pd]
            ELSE W.clients[id]]]

\* one pair of the player-player loop
SeparatePair(cs, id1, id2, dt) ==
    LET p1 == cs[id1].playerData
        p2 == cs[id2].playerData
        dx == p2.x - p1.x
        dy == p2.y - p1.y
        distSq == dx * dx + dy * dy
        minDist == TANK_RADIUS * 2 + MIN_SEPARATION
        currentDist == ISqrt(distSq)
        separationAmount == Min(Quot(minDist - currentDist, 2),
                                Quot(Travel(SEPARATION_SPEED, dt), 2))
        sx == IF currentDist = 0 THEN Quot(minDist, 2)
              ELSE Quot(dx * separationAmount, currentDist)
        sy == IF currentDist = 0 THEN 0
              ELSE Quot(dy * separationAmount, currentDist)
    IN IF distSq < minDist * minDist
       THEN [cs EXCEPT
               ![id1].playerData = ClampPlayer([p1 EXCEPT !.x = @ - sx, !.y = @ - sy]),
               ![id2].playerData = ClampPlayer([p2 EXCEPT !.x = @ + sx, !.y = @ + sy])]
       ELSE cs

RECURSIVE SeparateInner(_, _, _, _)
SeparateInner(cs, id1, others, dt) ==
    IF others = <<>> THEN cs
    ELSE SeparateInner(SeparatePair(cs, id1, Head(others), dt), id1, Tail(others), dt)

RECURSIVE SeparateOuter(_, _, _)
SeparateOuter(cs, playerIds, dt) ==
    IF playerIds = <<>> THEN cs
    ELSE SeparateOuter(SeparateInner(cs, Head(playerIds), Tail(playerIds), dt),
                       Tail(playerIds), dt)

CheckServerSideCollisions(W, dt) ==
    LET W1 == SeparatePlayersFromEnemies(W, dt)
    IN [W1 EXCEPT !.clients = SeparateOuter(@, SortedSeq(ActiveIds(W1.clients)), dt)]

\* ------------------------------------------------- GameServer: death, respawn
BroadcastPlayerDeath(W, playerId, killerId, x, y, scorePenalty) ==
    IF DOMAIN W.clients = {} THEN W
    ELSE LET m == [type |-> "PLAYER_DEATH", to |-> ActiveAddresses(W.clients),
                   playerId |-> playerId, killerId |-> killerId,
                   deathX |-> x, deathY |-> y, scorePenalty |-> scorePenalty,
                   sequenceNumber |-> W.outgoingSequenceNumber]
         IN [Emit(W, m) EXCEPT !.outgoingSequenceNumber = @ + 1]

BroadcastPlayerRespawn(W, playerId, x, y, health) ==
    IF DOMAIN W.clients = {} THEN W
    ELSE LET m == [type |-> "PLAYER_RESPAWN", to |-> ActiveAddresses(W.clients),
                   playerId |-> playerId, spawnX |-> x, spawnY |-> y,
                   health |-> health,
                   sequenceNumber |-> W.outgoingSequenceNumber]
         IN [Emit(W, m) EXCEPT !.outgoingSequenceNumber = @ + 1]

\* a server that takes the penalty off without the floor
HandlePlayerDeath_NoFloor(W, playerId, killerId) ==
    IF playerId \notin DOMAIN W.clients \/ ~W.clients[playerId].isActive THEN W
    ELSE LET c == W.clients[playerId]
             newScore == c.score - DEATH_PENALTY
             c1 == [c EXCEPT !.isDead = TRUE,
                             !.playerData.isDead = TRUE,
                             !.deathTimer = RESPAWN_COOLDOWN,
                             !.score = newScore,
                             !.playerData.score = newScore,
                             !.playerData.health = 0]
             W1 == [W EXCEPT !.clients[playerId] = c1]
         IN BroadcastPlayerDeath(W1, playerId, killerId,
                                 c.playerData.x, c.playerData.y, c.score - newScore)

HandlePlayerDeath(W, playerId, killerId) ==
    IF playerId \notin DOMAIN W.clients \/ ~W.clients[playerId].isActive THEN W
    ELSE LET c == W.clients[playerId]
             newScore == Max(0, c.score - DEATH_PENALTY)
             c1 == [c EXCEPT !.isDead = TRUE,
                             !.playerData.isDead = TRUE,
                             !.deathTimer = RESPAWN_COOLDOWN,
                             !.score = newScore,
                             !.playerData.score = newScore,
                             !.playerData.health = 0]
             W1 == [W EXCEPT !.clients[playerId] = c1]
         IN BroadcastPlayerDeath(W1, playerId, killerId,
                                 c.playerData.x, c.playerData.y, c.score - newScore)

RECURSIVE DeathLoop(_, _)
DeathLoop(W, ids) ==
    IF ids = <<>> THEN W
    ELSE LET c == W.clients[Head(ids)]
             W1 == IF c.isActive /\ ~c.isDead /\ c.playerData.health <= 0
                   THEN HandlePlayerDeath(W, Head(ids), 0)
                   ELSE W
         IN DeathLoop(W1, Tail(ids))

\* a death check that does not skip the players already dead
CheckPlayerDeaths_CountsTheDead(W) ==
    LET RECURSIVE Loop(_, _)
        Loop(V, ids) ==
            IF ids = <<>> THEN V
            ELSE Loop(IF V.clients[Head(ids)].isActive
                         /\ V.clients[Head(ids)].playerData.health <= 0
                      THEN HandlePlayerDeath(V, Head(ids), 0) ELSE V,
                      Tail(ids))
    IN Loop(W, Keys(W.clients))

CheckPlayerDeaths(W) == DeathLoop(W, Keys(W.clients))

\* a candidate is safe when it is 200 units or more from every living enemy
\* and every active living player
IsSafeRespawn(W, p) ==
    /\ \A id \in DOMAIN W.enemies :
          EnemyIsDead(W.enemies[id])
          \/ DistSq(p.x, p.y, W.enemies[id].x, W.enemies[id].y)
               >= MIN_SAFE_DISTANCE * MIN_SAFE_DISTANCE
    /\ \A id \in DOMAIN W.clients :
          \/ ~W.clients[id].isActive \/ W.clients[id].isDead
          \/ DistSq(p.x, p.y, W.clients[id].playerData.x, W.clients[id].playerData.y)
               >= MIN_SAFE_DISTANCE * MIN_SAFE_DISTANCE

\* the loop of MAX_ATTEMPTS draws: tries[k] is the k-th candidate drawn
RECURSIVE RespawnAttempt(_, _, _)
RespawnAttempt(W, tries, attempt) ==
    IF attempt >= MAX_ATTEMPTS THEN [x |-> CENTER_X, y |-> CENTER_Y]
    ELSE IF IsSafeRespawn(W, tries[attempt + 1]) THEN tries[attempt + 1]
    ELSE RespawnAttempt(W, tries, attempt + 1)

\* the generator gives rnd.respawn1 on the first draw and rnd.respawn2 on
\* every later one
GetRandomRespawnPosition(W, rnd) ==
    RespawnAttempt(W, [k \in 1..MAX_ATTEMPTS |->
                          IF k = 1 THEN rnd.respawn1 ELSE rnd.respawn2], 0)

RespawnPlayer(W, playerId, rnd) ==
    IF playerId \notin DOMAIN W.clients \/ ~W.clients[playerId].isActive THEN W
    ELSE LET spawnPos == GetRandomRespawnPosition(W, rnd)
             c == W.clients[playerId]
             c1 == [c EXCEPT !.isDead = FALSE,
                             !.deathTimer = 0,
                             !.playerData.isDead = FALSE,
                             !.playerData.health = c.playerData.maxHealth,
                             !.playerData.x = spawnPos.x,
                             !.playerData.y = spawnPos.y,
                             !.playerData.bodyRotation = 0,
                             !.playerData.barrelRotation = 0,
                             !.playerData.isMoving_forward = FALSE,
                             !.playerData.isMoving_backward = FALSE,
                             !.playerData.isMoving_left = FALSE,
                             !.playerData.isMoving_right = FALSE]
             W1 == [W EXCEPT !.clients[playerId] = c1]
         IN BroadcastPlayerRespawn(W1, playerId, spawnPos.x, spawnPos.y,
                                   c1.playerData.health)

\* a server that respawns a player one frame before its timer runs out
UpdateOneDeadPlayer_FrameEarly(W, id, dt, rnd) ==
    LET c == W.clients[id]
        W1 == [W EXCEPT !.clients[id].deathTimer = @ - dt]
    IN IF c.isActive /\ c.isDead
       THEN IF W1.clients[id].deathTimer <= dt
            THEN RespawnPlayer(W1, id, rnd) ELSE W1
       ELSE W

\* the body of the loop over the clients in UpdateDeadPlayers
UpdateOneDeadPlayer(W, id, dt, rnd) ==
    LET c == W.clients[id]
        W1 == [W EXCEPT !.clients[id].deathTimer = @ - dt]
    IN IF c.isActive /\ c.isDead
       THEN IF W1.clients[id].deathTimer <= 0
            THEN RespawnPlayer(W1, id, rnd) ELSE W1
       ELSE W

RECURSIVE DeadLoop(_, _, _, _)
DeadLoop(W, ids, dt, rnd) ==
    IF ids = <<>> THEN W
    ELSE DeadLoop(UpdateOneDeadPlayer(W, Head(ids), dt, rnd), Tail(ids), dt, rnd)

UpdateDeadPlayers(W, dt, rnd) == DeadLoop(W, Keys(W.clients), dt, rnd)

\* ------------------------------------------------- GameServer: reaping
\* a reaper that drops a client at the timeout, not after it
AgeClients_AtTimeout(cs, dt) ==
    [id \in DOMAIN cs |->
        IF cs[id].isActive
        THEN LET t == cs[id].lastUpdateTime + dt
             IN [cs[id] EXCEPT !.lastUpdateTime = t,
                               !.isActive = ~(t >= clientTimeoutDuration)]
        ELSE cs[id]]

AgeClients(cs, dt) ==
    [id \in DOMAIN cs |->
        IF cs[id].isActive
        THEN LET t == cs[id].lastUpdateTime + dt
             IN [cs[id] EXCEPT !.lastUpdateTime = t,
                               !.isActive = ~(t > clientTimeoutDuration)]
        ELSE cs[id]]

RECURSIVE EraseLoop(_, _)
EraseLoop(W, toRemove) ==
    IF toRemove = <<>> THEN W
    ELSE LET W1 == BroadcastPlayerLeft(W, Head(toRemove))
         IN EraseLoop([W1 EXCEPT !.clients = Without(@, Head(toRemove))],
                      Tail(toRemove))

RemoveInactiveClients(W, dt) ==
    LET aged == AgeClients(W.clients, dt)
        toRemove == SortedSeq({id \in DOMAIN aged :
                                  W.clients[id].isActive /\ ~aged[id].isActive})
    IN EraseLoop([W EXCEPT !.clients = aged], toRemove)

\* ------------------------------------------------- GameServer::Update
\* the two periodic senders between UpdateDeadPlayers and the reaper
PeriodicBroadcast(W, dt) ==
    LET W1 == [W EXCEPT !.gameStateUpdateTimer = @ + dt,
                        !.bulletUpdateTimer = @ + dt]
        W2 == IF W1.gameStateUpdateTimer >= gameStateUpdateRate
              THEN [SendGameStateToAll(W1) EXCEPT !.gameStateUpdateTimer = 0]
              ELSE W1
    IN IF W2.bulletUpdateTimer >= bulletUpdateRate
       THEN [SendBulletUpdates(W2) EXCEPT !.bulletUpdateTimer = 0]
       ELSE W2

\* everything Update does after ProcessIncomingMessages: the server after
\* each call, in the order of the calls; done is the server when Update
\* returns
Update(W, dt, rnd) ==
    LET Reap(atBullets, afterBullets, atDeathCheck, atRespawn, afterRespawn, atReap) ==
            [atBullets |-> atBullets, afterBullets |-> afterBullets,
             atDeathCheck |-> atDeathCheck, atRespawn |-> atRespawn,
             afterRespawn |-> afterRespawn, atReap |-> atReap,
             done |-> RemoveInactiveClients(atReap, dt)]
        Broadcast(atBullets, afterBullets, atDeathCheck, atRespawn, afterRespawn) ==
            Reap(atBullets, afterBullets, atDeathCheck, atRespawn, afterRespawn,
                 PeriodicBroadcast(afterRespawn, dt))
        Respawn(atBullets, afterBullets, atDeathCheck, atRespawn) ==
            Broadcast(atBullets, afterBullets, atDeathCheck, atRespawn,
                      UpdateDeadPlayers(atRespawn, dt, rnd))
        Deaths(atBullets, afterBullets, atDeathCheck) ==
            Respawn(atBullets, afterBullets, atDeathCheck,
                    CheckPlayerDeaths(atDeathCheck))
        Collide(atBullets, afterBullets) ==
            Deaths(atBullets, afterBullets,
                        CheckServerSideCollisions(afterBullets, dt))
        Bullets(atBullets) == Collide(atBullets, UpdateBullets(atBullets, dt))
    IN Bullets(UpdateEnemies(SimulatePlayerMovement(W, dt), dt, rnd))

\* ------------------------------------------------- steps
Commit(W) ==
    /\ clients' = W.clients
    /\ enemies' = W.enemies
    /\ bullets' = W.bullets
    /\ nextPlayerId' = W.nextPlayerId
    /\ nextEnemyId' = W.nextEnemyId
    /\ nextBulletId' = W.nextBulletId
    /\ outgoingSequenceNumber' = W.outgoingSequenceNumber
    /\ gameStateUpdateTimer' = W.gameStateUpdateTimer
    /\ bulletUpdateTimer' = W.bulletUpdateTimer
    /\ enemySpawnTimer' = W.enemySpawnTimer
    /\ sent' = W.out
    /\ UNCHANGED <<networkClient, snapshots, interpolation>>

\* a datagram of the given kind is taken from the socket and handled
Receive(kind, msg, addr, W) ==
    /\ Commit(W)
    /\ step' = [kind |-> kind, msg |-> msg, from |-> addr]
    /\ msgCount' = msgCount + 1
    /\ receiveErrorRun' = 0
    /\ UNCHANGED <<tickCount, sinceShot>>

RecvJoin(msgs, addrs, picks) ==
    \E msg \in msgs, addr \in addrs, pick \in picks :
        Receive("JOIN", msg, addr, HandleJoinRequest(World, msg, addr, pick))

RecvPlayerUpdate(msgs, addrs) ==
    \E msg \in msgs, addr \in addrs :
        Receive("PLAYER_UPDATE", msg, addr, HandlePlayerUpdate(World, msg, addr))

RecvPlayerInput(msgs, addrs) ==
    \E msg \in msgs, addr \in addrs :
        Receive("PLAYER_INPUT", msg, addr, HandlePlayerInput(World, msg, addr))

RecvPing(msgs, addrs) ==
    \E msg \in msgs, addr \in addrs :
        Receive("PING", msg, addr, HandlePing(World, msg, addr))

RecvBulletSpawn(msgs, addrs) ==
    \E msg \in msgs, addr \in addrs :
        Receive("BULLET_SPAWN", msg, addr, HandleBulletSpawn(World, msg, addr))

\* the simulation part of one Update call; the step keeps what the phases
\* saw, for the properties that speak of a moment inside the tick
\* the values the generators of a tick can give: a spawn point from
\* GetRandomSpawnPosition, a type from GetRandomEnemyType, a patrol waypoint,
\* an interior point for a retreat, the draw of the accuracy spread as a
\* fraction of the type's spread, and the respawn candidates
IsDraw(rnd) ==
    /\ rnd.spawn.x >= SPAWN_MIN_X /\ rnd.spawn.x <= SPAWN_MAX_X
    /\ rnd.spawn.y >= SPAWN_MIN_Y /\ rnd.spawn.y <= SPAWN_MAX_Y
    /\ rnd.enemyType \in {"RED", "BLACK", "PURPLE", "TEAL", "ORANGE"}
    /\ rnd.waypoint.x >= 100 /\ rnd.waypoint.x <= 1180
    /\ rnd.waypoint.y >= 100 /\ rnd.waypoint.y <= 860
    /\ rnd.interior.x >= MOVEMENT_MIN_X + INTERIOR_MARGIN
    /\ rnd.interior.x <= MOVEMENT_MAX_X - INTERIOR_MARGIN
    /\ rnd.interior.y >= MOVEMENT_MIN_Y + INTERIOR_MARGIN
    /\ rnd.interior.y <= MOVEMENT_MAX_Y - INTERIOR_MARGIN
    /\ rnd.spread \in -1..1
    /\ \A r \in {rnd.respawn1, rnd.respawn2} :
          /\ r.x >= PLAYABLE_MIN_X + TANK_RADIUS + RESPAWN_EDGE_MARGIN
          /\ r.x <= PLAYABLE_MAX_X - TANK_RADIUS - RESPAWN_EDGE_MARGIN
          /\ r.y >= PLAYABLE_MIN_Y + TANK_RADIUS + RESPAWN_EDGE_MARGIN
          /\ r.y <= PLAYABLE_MAX_Y - TANK_RADIUS - RESPAWN_EDGE_MARGIN

\* the enemy's TryShoot returned true during a tick of dt that began with the
\* enemy as before and ended with it as after: the cooldown stands above
\* what UpdateCooldown left, and TryShoot is the only code that raises it
FiredInTick(before, after, dt) ==
    after.shootCooldown > Max(0, before.shootCooldown - dt)

ShotClock(after, dt) ==
    LET Fired(id) == id \in DOMAIN enemies /\ FiredInTick(enemies[id], after[id], dt)
    IN [id \in {i \in DOMAIN after : i \in DOMAIN sinceShot \/ Fired(i)} |->
           IF Fired(id) THEN 0 ELSE sinceShot[id] + dt]

Tick(dts, rnds) ==
    \E dt \in dts, rnd \in rnds :
        LET Record(u) ==
                /\ Commit(u.done)
                /\ step' = [kind |-> "TICK", dt |-> dt,
                            atBullets |-> [enemies |-> u.atBullets.enemies,
                                           clients |-> u.atBullets.clients],
                            afterBullets |-> [enemies |-> u.afterBullets.enemies,
                                              clients |-> u.afterBullets.clients,
                                              out |-> u.afterBullets.out],
                            atDeathCheck |-> u.atDeathCheck.clients,
                            atRespawn |-> u.atRespawn.clients,
                            afterRespawn |-> u.afterRespawn.clients,
                            atReap |-> [clients |-> u.atReap.clients,
                                        sentBefore |-> Len(u.atReap.out)]]
        IN /\ IsDraw(rnd)
           /\ Record(Update(World, dt, rnd))
           /\ sinceShot' = ShotClock(enemies', dt)
           /\ tickCount' = tickCount + 1
           /\ UNCHANGED <<msgCount, receiveErrorRun>>

\* InterpolationManager::InterpolationManager and
\* EntityInterpolationBuffer::EntityInterpolationBuffer; outState is the state
\* GetInterpolatedState returned last
NewInterpolation ==
    [renderTime |-> 0,
     wasLastStateExtrapolated |-> FALSE,
     lastExtrapolationTime |-> 0,
     lastExtrapolatedState |-> [x |-> 0, wasExtrapolated |-> FALSE],
     outState |-> [x |-> 0, wasExtrapolated |-> FALSE]]

\* the server right after GameServer::GameServer and Initialize
Init ==
    /\ clients = <<>>
    /\ enemies = <<>>
    /\ bullets = <<>>
    /\ nextPlayerId = FIRST_PLAYER_ID
    /\ nextEnemyId = FIRST_ENEMY_ID
    /\ nextBulletId = FIRST_BULLET_ID
    /\ outgoingSequenceNumber = 0
    /\ gameStateUpdateTimer = 0
    /\ bulletUpdateTimer = 0
    /\ enemySpawnTimer = 0
    /\ sent = <<>>
    /\ step = [kind |-> "START"]
    /\ tickCount = 0
    /\ msgCount = 0
    /\ networkClient = ConnectedClient
    /\ snapshots = <<>>
    /\ interpolation = NewInterpolation
    /\ receiveErrorRun = 0
    /\ sinceShot = <<>>

\* ------------------------------------------------- the network session
Addr1 == [ip |-> "10.0.0.1", port |-> 50001]
Addr2 == [ip |-> "10.0.0.2", port |-> 50002]

Pos(x, y) == [x |-> x, y |-> y]

\* one value for every draw of a tick nobody is near
QuietDraws ==
    [spawn |-> Pos(1100, 800), enemyType |-> "ORANGE", waypoint |-> Pos(1100, 800),
     interior |-> Pos(640, 480), spread |-> 0,
     respawn1 |-> Pos(200, 200), respawn2 |-> Pos(200, 700)]

JoinMsgs ==
    { [playerName |-> n, preferredColor |-> "", sequenceNumber |-> 1] :
        n \in { <<>>, <<"A", "d", "a">> } }

InputFrame(id, seq, fwd, right, barrel) ==
    [playerId |-> id, sequenceNumber |-> seq,
     isMoving_forward |-> fwd, isMoving_backward |-> FALSE,
     isMoving_left |-> FALSE, isMoving_right |-> right,
     barrelRotation |-> barrel]

InputMsgs ==
    { InputFrame(1, seq, FALSE, FALSE, 0) : seq \in {2, 10, 60} }
    \cup { InputFrame(1, seq, TRUE, TRUE, 400) : seq \in {2, 10, 60} }
    \cup { InputFrame(0, 2, TRUE, TRUE, 400) }

UpdateMsgs ==
    { [playerId |-> 1, sequenceNumber |-> 3, x |-> x, y |-> 100,
       bodyRotation |-> 450, barrelRotation |-> -90,
       isMoving_forward |-> FALSE, isMoving_backward |-> TRUE,
       isMoving_left |-> TRUE, isMoving_right |-> FALSE] : x \in {100, 2000} }

PingMsgs == { [timestamp |-> 7, sequenceNumber |-> 4] }

BulletMsgs ==
    { [playerId |-> 1, spawnX |-> 660, spawnY |-> 480,
       directionX |-> 1000, directionY |-> 0, timestampValid |-> v] :
        v \in BOOLEAN }

Next ==
    \/ msgCount < MaxMsgs /\ RecvJoin(JoinMsgs, {Addr1, Addr2}, {1})
    \/ msgCount < MaxMsgs /\ RecvPlayerInput(InputMsgs, {Addr1, Addr2})
    \/ msgCount < MaxMsgs /\ RecvPlayerUpdate(UpdateMsgs, {Addr1})
    \/ msgCount < MaxMsgs /\ RecvPing(PingMsgs, {Addr1})
    \/ msgCount < MaxMsgs /\ RecvBulletSpawn(BulletMsgs, {Addr1})
    \/ tickCount < MaxTicks /\ Tick({16, 5000}, {QuietDraws})

Spec == Init /\ [][Next]_vars

\* ------------------------------------------------- properties: ingest
MessageKinds == {"JOIN", "PLAYER_UPDATE", "PLAYER_INPUT", "BULLET_SPAWN", "PING"}

\* the datagrams of one type among those the last step sent
SentOfType(out, t) == {i \in DOMAIN out : out[i].type = t}

\* the step being taken handles a PlayerInput that names a client and comes
\* from that client's address
InputFromClient ==
    /\ step'.kind = "PLAYER_INPUT"
    /\ step'.msg.playerId \in DOMAIN clients
    /\ clients[step'.msg.playerId].address = step'.from

Flags(pd) ==
    <<pd.isMoving_forward, pd.isMoving_backward, pd.isMoving_left, pd.isMoving_right>>

\* C1: a PlayerInput whose sequence number is already in the client's
\* received-sequence set is discarded: the client's movement flags, barrel
\* rotation, idle timer and last-acknowledged input sequence stay as they
\* were and no InputAck is sent for it.
C1_DuplicateInputDiscarded ==
    [][ ( /\ InputFromClient
          /\ step'.msg.sequenceNumber
               \in clients[step'.msg.playerId].receivedSequenceNumbers )
        => LET id == step'.msg.playerId
           IN /\ Flags(clients'[id].playerData) = Flags(clients[id].playerData)
              /\ clients'[id].playerData.barrelRotation
                   = clients[id].playerData.barrelRotation
              /\ clients'[id].lastUpdateTime = clients[id].lastUpdateTime
              /\ clients'[id].lastAcknowledgedInputSeq
                   = clients[id].lastAcknowledgedInputSeq
              /\ SentOfType(sent', "INPUT_ACK") = {} ]_vars

\* the step being taken applied a PlayerInput: the client's record changed
\* or an InputAck went out
InputApplied ==
    /\ InputFromClient
    /\ \/ clients'[step'.msg.playerId] # clients[step'.msg.playerId]
       \/ SentOfType(sent', "INPUT_ACK") # {}

\* C2: every PlayerInput the server applies has, when it is applied,
\* sequence > last acknowledged input sequence or sequence + 50 >= last
\* received sequence; an input more than 50 behind the last received
\* sequence has no effect on the client's state.
C2_AppliedInputInsideWindow ==
    [][ /\ InputApplied
          => LET c == clients[step'.msg.playerId]
                 seq == step'.msg.sequenceNumber
             IN \/ seq > c.lastAcknowledgedInputSeq
                \/ seq + OUT_OF_ORDER_THRESHOLD >= c.lastReceivedSequenceNumber
        /\ ( /\ InputFromClient
             /\ step'.msg.sequenceNumber + OUT_OF_ORDER_THRESHOLD
                  < clients[step'.msg.playerId].lastReceivedSequenceNumber )
          => clients' = clients ]_vars

\* C3: no message from a client sets a player's position, body rotation,
\* health, score or dead flag; those change only in the simulation.
C3_ClientMessagesLeaveAuthoritativeState ==
    [][ step'.kind \in MessageKinds
        => \A id \in DOMAIN clients \cap DOMAIN clients' :
              /\ clients'[id].playerData.x = clients[id].playerData.x
              /\ clients'[id].playerData.y = clients[id].playerData.y
              /\ clients'[id].playerData.bodyRotation
                   = clients[id].playerData.bodyRotation
              /\ clients'[id].playerData.health = clients[id].playerData.health
              /\ clients'[id].score = clients[id].score
              /\ clients'[id].isDead = clients[id].isDead ]_vars

\* C9: for every PlayerInput the server applies (it names a client and
\* comes from that client's address) exactly one InputAck is sent in the
\* same step, to the sender, with that player id and that sequence number;
\* a PlayerInput that is not applied changes no client and is not
\* acknowledged.
C9_OneAckPerAppliedInput ==
    [][ step'.kind = "PLAYER_INPUT"
        => IF InputFromClient
           THEN /\ Cardinality(SentOfType(sent', "INPUT_ACK")) = 1
                /\ \A i \in SentOfType(sent', "INPUT_ACK") :
                      /\ sent'[i].to = {step'.from}
                      /\ sent'[i].playerId = step'.msg.playerId
                      /\ sent'[i].acknowledgedSequence = step'.msg.sequenceNumber
                /\ Flags(clients'[step'.msg.playerId].playerData)
                     = Flags(step'.msg)
           ELSE /\ SentOfType(sent', "INPUT_ACK") = {}
                /\ clients' = clients ]_vars

\* C9 witness: an input with sequence 60 was applied and acknowledged
C9_Witness ==
    /\ step.kind = "PLAYER_INPUT"
    /\ step.msg.sequenceNumber = 60
    /\ 1 \in DOMAIN clients
    /\ clients[1].lastAcknowledgedInputSeq = 60
    /\ Cardinality(SentOfType(sent, "INPUT_ACK")) = 1

\* ------------------------------------------------- the idle session
\* long frames, one client that may send an input, pings and shots
IdleInputMsgs == { InputFrame(1, 2, TRUE, FALSE, 0) }

OneJoinMsg ==
    { [playerName |-> <<"A", "d", "a">>, preferredColor |-> "", sequenceNumber |-> 1] }

NextIdle ==
    \/ msgCount < MaxMsgs /\ RecvJoin(OneJoinMsg, {Addr1}, {1})
    \/ msgCount < MaxMsgs /\ RecvPlayerInput(IdleInputMsgs, {Addr1})
    \/ msgCount < MaxMsgs /\ RecvPing(PingMsgs, {Addr1})
    \/ msgCount < MaxMsgs /\ RecvBulletSpawn(BulletMsgs, {Addr1})
    \/ tickCount < MaxIdleTicks /\ Tick({5000}, {QuietDraws})

SpecIdle == Init /\ [][NextIdle]_vars

\* ------------------------------------------------- properties: reaping
GameStatesListing(out, id) ==
    {i \in SentOfType(out, "GAME_STATE") : id \in DOMAIN out[i].players}

\* the messages the handlers answer with lastUpdateTime = 0: an input or an
\* accepted legacy update of the player from its own address, and a
\* repeated join from its address
RestartsIdleClock(st, c, id) ==
    \/ /\ st.kind = "PLAYER_INPUT"
       /\ st.msg.playerId = id
       /\ c.address = st.from
    \/ /\ st.kind = "PLAYER_UPDATE"
       /\ st.msg.playerId = id
       /\ c.address = st.from
       /\ IsValidPosition(st.msg.x, st.msg.y)
       /\ IsValidRotation(st.msg.bodyRotation)
       /\ IsValidRotation(st.msg.barrelRotation)
    \/ /\ st.kind = "JOIN"
       /\ c.address = st.from
       /\ IsValidPlayerName(st.msg.playerName)

\* C4: in every reachable state the number of enemies is at most
\* 3 * [active players > 0] + (number of active players).
C4_EnemyCountWithinBound ==
    LET n == Cardinality(ActiveIds(clients))
    IN Cardinality(DOMAIN enemies) <= 3 * (IF n > 0 THEN 1 ELSE 0) + n

HuntDraws ==
    { [QuietDraws EXCEPT !.enemyType = t, !.spawn = Pos(792, 480)] :
        t \in {"RED", "TEAL"} }

HuntBulletMsgs ==
    { [playerId |-> 1, spawnX |-> 642, spawnY |-> 480,
       directionX |-> 1000, directionY |-> 0, timestampValid |-> TRUE] }

NextHunt ==
    \/ msgCount = 0 /\ RecvJoin(OneJoinMsg, {Addr1}, {1})
    \/ msgCount > 0 /\ msgCount < MaxHuntMsgs
          /\ RecvBulletSpawn(HuntBulletMsgs, {Addr1})
    \/ tickCount < MaxHuntTicks /\ Tick({300, 5000}, HuntDraws)

SpecHunt == Init /\ [][NextHunt]_vars

\* ------------------------------------------------- properties: score
\* the enemies the bullet phase of the tick took from above zero to zero
KilledInTick(st) ==
    {e \in DOMAIN st.atBullets.enemies :
        /\ st.atBullets.enemies[e].currentHealth > 0
        /\ st.afterBullets.enemies[e].currentHealth <= 0}

\* the hits on enemy e among the datagrams
HitsOn(out, e) ==
    {i \in SentOfType(out, "BULLET_DESTROY") :
        out[i].destroyReason = 2 /\ out[i].hitTargetId = e}

\* the owner of the bullet whose hit was the last one on e
Killer(bs, out, e) ==
    LET last == CHOOSE i \in HitsOn(out, e) : \A j \in HitsOn(out, e) : j <= i
    IN bs[out[last].bulletId].ownerId

RECURSIVE ScoreSum(_, _)
ScoreSum(es, S) ==
    IF S = {} THEN 0
    ELSE LET e == CHOOSE x \in S : TRUE
         IN EnemyScoreValue(es[e].enemyType) + ScoreSum(es, S \ {e})

KillScore(st, bs, p) ==
    ScoreSum(st.atBullets.enemies,
             {e \in KilledInTick(st) : Killer(bs, st.afterBullets.out, e) = p})

DiesInTick(st, p) == ~st.atDeathCheck[p].isDead /\ st.atRespawn[p].isDead

\* C10: the bullet phase of a tick raises a player's score by the score
\* values of the enemies that its bullets took from above zero to zero, each
\* enemy counted once however many bullets hit it; the score is then kept
\* to the end of the tick unless the player dies in it, no datagram changes
\* it, and every GameState carries the score the server holds.
C10_KillScoresOnce ==
    [][ /\ step'.kind = "TICK"
          => /\ \A p \in DOMAIN step'.atBullets.clients :
                   step'.afterBullets.clients[p].score =
                       step'.atBullets.clients[p].score
                         + KillScore(step', bullets, p)
             /\ \A p \in DOMAIN clients' :
                   ~DiesInTick(step', p)
                     => clients'[p].score = step'.afterBullets.clients[p].score
             /\ \A p \in DOMAIN clients :
                   step'.atBullets.clients[p].score = clients[p].score
        /\ step'.kind \in MessageKinds
          => \A p \in DOMAIN clients :
                p \in DOMAIN clients' /\ clients'[p].score = clients[p].score
        /\ \A i \in SentOfType(sent', "GAME_STATE") :
              \A p \in DOMAIN sent'[i].players \cap DOMAIN clients' :
                 sent'[i].players[p].score = clients'[p].score ]_vars

\* C10 witness: five bullets reached a Red tank in one tick, four of them hit
\* it, the fifth flew on over the wreck, and the player holds 10 points
C10_Witness ==
    /\ step.kind = "TICK"
    /\ \E e \in DOMAIN enemies :
          /\ enemies[e].enemyType = "RED"
          /\ enemies[e].currentHealth = 0
          /\ Cardinality(HitsOn(sent, e)) = 4
    /\ \E b \in DOMAIN bullets : bullets[b].ownerId = 1
    /\ 1 \in DOMAIN clients
    /\ clients[1].score = 10
    /\ \E i \in SentOfType(sent, "GAME_STATE") : sent[i].players[1].score = 10

\* ------------------------------------------------- the fight
\* 0.3 s frames; a Purple tank spawns 130 units to the right of the joined
\* player, inside its attack band, and its bullets reach the player in the
\* frame they are fired.  The join is the first datagram; afterwards the
\* client may start driving forward or send a legacy update that puts it
\* in a corner
CombatDraws ==
    { [QuietDraws EXCEPT !.enemyType = "PURPLE", !.spawn = Pos(770, 480),
                         !.waypoint = Pos(770, 480), !.respawn1 = r] :
        r \in { Pos(200, 200), Pos(700, 480) } }

CombatInputMsgs == { InputFrame(1, 2, TRUE, FALSE, 0) }

CombatUpdateMsgs ==
    { [playerId |-> 1, x |-> 100, y |-> 100, bodyRotation |-> 450,
       barrelRotation |-> -90, isMoving_forward |-> FALSE,
       isMoving_backward |-> TRUE, isMoving_left |-> TRUE,
       isMoving_right |-> FALSE, sequenceNumber |-> 3] }

NextCombat ==
    \/ tickCount = 0 /\ msgCount = 0 /\ RecvJoin(OneJoinMsg, {Addr1}, {1})
    \/ msgCount > 0 /\ msgCount < MaxCombatMsgs
          /\ RecvPlayerInput(CombatInputMsgs, {Addr1})
    \/ msgCount > 0 /\ msgCount < MaxCombatMsgs
          /\ RecvPlayerUpdate(CombatUpdateMsgs, {Addr1})
    \/ msgCount > 0 /\ tickCount < MaxCombatTicks /\ Tick({300}, CombatDraws)

SpecCombat == Init /\ [][NextCombat]_vars

\* ------------------------------------------------- properties: death, respawn
RespawnsOf(out, p) ==
    {i \in SentOfType(out, "PLAYER_RESPAWN") : out[i].playerId = p}

DeathsOf(out, p) ==
    {i \in SentOfType(out, "PLAYER_DEATH") : out[i].playerId = p}

InRange(pd) ==
    /\ 0 <= pd.bodyRotation /\ pd.bodyRotation < 360
    /\ MOVEMENT_MIN_X <= pd.x /\ pd.x <= MOVEMENT_MAX_X
    /\ MOVEMENT_MIN_Y <= pd.y /\ pd.y <= MOVEMENT_MAX_Y
    /\ 0 <= pd.health /\ pd.health <= pd.maxHealth
    /\ pd.maxHealth > 0

\* C5: every PlayerData in every GameState the server sends has its body
\* rotation in [0, 360), its position inside the movement rectangle, its
\* health between 0 and maxHealth, and a positive maxHealth.
C5_SnapshotPlayersInRange ==
    \A i \in SentOfType(sent, "GAME_STATE") :
        \A p \in DOMAIN sent[i].players : InRange(sent[i].players[p])

\* C5 witness: a tick sent a GameState listing a dead player that had driven
\* against the right edge of the movement rectangle
C5_Witness ==
    /\ step.kind = "TICK"
    /\ \E i \in SentOfType(sent, "GAME_STATE") :
          /\ 1 \in DOMAIN sent[i].players
          /\ sent[i].players[1].x = MOVEMENT_MAX_X
          /\ sent[i].players[1].isMoving_forward
          /\ sent[i].players[1].health = 0
          /\ sent[i].players[1].isDead

\* ------------------------------------------------- the death check alone
\* CheckPlayerDeaths applied to the server as a fight can leave it when the
\* check is reached: two joined players, each with some health and score,
\* alive or already dead
FightHealths == {0, 20, 100}

FightScores == {0, 40, 100, 250}

FightDeathTimers == {4700}

TwoJoined ==
    LET one == HandleJoinRequest([clients |-> <<>>, enemies |-> <<>>,
                                  bullets |-> <<>>,
                                  nextPlayerId |-> FIRST_PLAYER_ID,
                                  nextEnemyId |-> FIRST_ENEMY_ID,
                                  nextBulletId |-> FIRST_BULLET_ID,
                                  outgoingSequenceNumber |-> 0,
                                  gameStateUpdateTimer |-> 0,
                                  bulletUpdateTimer |-> 0,
                                  enemySpawnTimer |-> 0, out |-> <<>>],
                                 CHOOSE m \in OneJoinMsg : TRUE, Addr1, 1)
    IN HandleJoinRequest([one EXCEPT !.out = <<>>],
                         CHOOSE m \in OneJoinMsg : TRUE, Addr2, 1)

Fought(c, health, score, dead, timer) ==
    [c EXCEPT !.playerData.health = IF dead THEN 0 ELSE health,
              !.score = score,
              !.playerData.score = score,
              !.isDead = dead,
              !.playerData.isDead = dead,
              !.deathTimer = IF dead THEN timer ELSE 0]

InitDeath ==
    /\ \E h1 \in FightHealths, h2 \in FightHealths,
          s1 \in FightScores, s2 \in FightScores,
          d1 \in BOOLEAN, d2 \in BOOLEAN, t \in FightDeathTimers :
          clients = [id \in DOMAIN TwoJoined.clients |->
                        IF id = 1
                        THEN Fought(TwoJoined.clients[id], h1, s1, d1, t)
                        ELSE Fought(TwoJoined.clients[id], h2, s2, d2, t)]
    /\ enemies = TwoJoined.enemies
    /\ bullets = TwoJoined.bullets
    /\ nextPlayerId = TwoJoined.nextPlayerId
    /\ nextEnemyId = TwoJoined.nextEnemyId
    /\ nextBulletId = TwoJoined.nextBulletId
    /\ outgoingSequenceNumber = TwoJoined.outgoingSequenceNumber
    /\ gameStateUpdateTimer = 0
    /\ bulletUpdateTimer = 0
    /\ enemySpawnTimer = 0
    /\ sent = <<>>
    /\ step = [kind |-> "START"]
    /\ tickCount = 0
    /\ msgCount = 0
    /\ networkClient = ConnectedClient
    /\ snapshots = <<>>
    /\ interpolation = NewInterpolation
    /\ receiveErrorRun = 0
    /\ sinceShot = <<>>

DeathCheck ==
    /\ step.kind = "START"
    /\ LET W == CheckPlayerDeaths(World)
       IN /\ Commit(W)
          /\ step' = [kind |-> "DEATH_CHECK", atDeathCheck |-> clients,
                      atRespawn |-> W.clients]
    /\ UNCHANGED <<tickCount, msgCount, receiveErrorRun, sinceShot>>

SpecDeath == InitDeath /\ [][DeathCheck]_vars

MAX_PREDICTION_HISTORY == 60
MAX_INPUT_BUFFER_SIZE == 100
INPUT_TIMEOUT_MS == 5000
HISTORY_SAFETY_BUFFER == 10
CLEANUP_PERIOD == 30

\* BufferInput without the size limit
BufferInput_Unbounded(C, input) ==
    [C EXCEPT !.inputBuffer =
        With(@, input.sequenceNumber,
             [input |-> input, needsReplay |-> FALSE, bufferTime |-> 0])]

BufferInput(C, input) ==
    LET Oldest(buf) ==
            CHOOSE s \in DOMAIN buf :
                \A t \in DOMAIN buf :
                    \/ buf[s].input.timestamp < buf[t].input.timestamp
                    \/ buf[s].input.timestamp = buf[t].input.timestamp /\ s <= t
        Bounded(buf) ==
            IF Cardinality(DOMAIN buf) > MAX_INPUT_BUFFER_SIZE
            THEN Without(buf, Oldest(buf)) ELSE buf
    IN [C EXCEPT !.inputBuffer =
            Bounded(With(@, input.sequenceNumber,
                         [input |-> input, needsReplay |-> FALSE, bufferTime |-> 0]))]

\* a deque after push_back(sequenceNumber) and the pop_front loop
PushLimited(history, sequenceNumber) ==
    LET Pushed == Append(history, sequenceNumber)
    IN IF Len(Pushed) > MAX_PREDICTION_HISTORY
       THEN SubSeq(Pushed, Len(Pushed) - MAX_PREDICTION_HISTORY + 1, Len(Pushed))
       ELSE Pushed

StoreInput(C, input) ==
    LET Buffered ==
            BufferInput([C EXCEPT !.nextSequenceNumber = @ + 1],
                        [input EXCEPT !.sequenceNumber = C.nextSequenceNumber])
    IN [Buffered EXCEPT !.inputHistory = PushLimited(C.inputHistory, C.nextSequenceNumber)]

StorePredictedState(C, sequenceNumber) ==
    [C EXCEPT !.predictionHistory = PushLimited(@, sequenceNumber)]

AcknowledgeInput(C, sequenceNumber) ==
    IF sequenceNumber \in DOMAIN C.inputBuffer
    THEN [C EXCEPT !.inputBuffer = Without(@, sequenceNumber)]
    ELSE C

\* a deque after while (!empty() && front().sequenceNumber < cutoff) pop_front()
PopFrontBelow(history, cutoff) ==
    LET Kept == {i \in 1..Len(history) : ~(history[i] < cutoff)}
        First == CHOOSE i \in Kept : \A j \in Kept : i <= j
    IN IF Kept = {} THEN <<>> ELSE SubSeq(history, First, Len(history))

CleanupOldHistory(C, lastAckedSequence) ==
    LET Cut(cutoff) ==
            [C EXCEPT !.inputHistory = PopFrontBelow(@, cutoff),
                      !.predictionHistory = PopFrontBelow(@, cutoff),
                      !.inputBuffer =
                [s \in {t \in DOMAIN @ : ~(t < cutoff)} |-> @[s]]]
    IN Cut(IF lastAckedSequence > HISTORY_SAFETY_BUFFER
           THEN lastAckedSequence - HISTORY_SAFETY_BUFFER ELSE 0)

MarkInputsForReplay(C, fromSequence) ==
    [C EXCEPT !.inputBuffer =
        [s \in DOMAIN @ |->
            IF @[s].input.sequenceNumber >= fromSequence
            THEN [@[s] EXCEPT !.needsReplay = TRUE] ELSE @[s]]]

\* the flagged inputs' sequence numbers, ascending (std::sort by sequenceNumber)
GetInputsToReplay(C) ==
    SortedSeq({s \in DOMAIN C.inputBuffer : C.inputBuffer[s].needsReplay})

ClearReplayFlags(C) ==
    [C EXCEPT !.inputBuffer =
        [s \in DOMAIN @ |-> [@[s] EXCEPT !.needsReplay = FALSE]]]

UpdateBufferTimers(C, dt) ==
    [C EXCEPT !.inputBuffer =
        [s \in DOMAIN @ |-> [@[s] EXCEPT !.bufferTime = @ + dt]]]

CleanupTimedOutInputs(C) ==
    [C EXCEPT !.inputBuffer =
        [s \in {t \in DOMAIN @ : ~(@[t].bufferTime > INPUT_TIMEOUT_MS)} |-> @[s]]]

\* ------------------------------------------------- network_client.cpp
maxConsecutiveErrors == 5
TINY_ERROR == 5
SMOOTH_CORRECTION_THRESHOLD == 30
SNAP_CORRECTION_THRESHOLD == 50
LERP_FACTOR_1000 == 96
RECONCILED_DISTANCE == 2
MOUSE_DISTANCE == 100
pingInterval == 1000

\* the tank after one input: body turn, wrap to [0, 360), move along the
\* body, barrel toward the mouse
ApplyInputToTank(tank, input, mousePos) ==
    LET Aim(t) ==
            [t EXCEPT !.barrelRotation = Atan2Deg(mousePos.y - t.y, mousePos.x - t.x)]
        Drive(rot, mx, my) ==
            Aim([tank EXCEPT
                    !.bodyRotation = rot,
                    !.x = IF input.moveForward THEN @ + mx
                          ELSE IF input.moveBackward THEN @ - mx ELSE @,
                    !.y = IF input.moveForward THEN @ + my
                          ELSE IF input.moveBackward THEN @ - my ELSE @])
        Turned(rot, run) ==
            Drive(rot, Quot(Cos1000(rot) * run, 1000), Quot(Sin1000(rot) * run, 1000))
    IN Turned(RotDown(RotUp(
                IF input.turnLeft
                THEN tank.bodyRotation - Travel(ROTATION_SPEED, input.deltaTime)
                ELSE IF input.turnRight
                THEN tank.bodyRotation + Travel(ROTATION_SPEED, input.deltaTime)
                ELSE tank.bodyRotation)),
              Travel(MOVEMENT_SPEED, input.deltaTime))

\* the buffered inputs with the given sequence numbers applied in that order
RECURSIVE ReplayInputs(_, _, _, _)
ReplayInputs(tank, buffer, seqs, mousePos) ==
    IF seqs = <<>> THEN tank
    ELSE ReplayInputs(ApplyInputToTank(tank, buffer[Head(seqs)].input, mousePos),
                      buffer, Tail(seqs), mousePos)

\* what a socket.send status does to the connection: Done clears the error
\* run, NotReady leaves it, anything else counts and, where the caller
\* checks the limit, disconnects
AfterSend(C, status, checksLimit) ==
    IF ~C.isConnected THEN C
    ELSE IF status = "Done" THEN [C EXCEPT !.consecutiveErrors = 0]
    ELSE IF status = "NotReady" THEN C
    ELSE [C EXCEPT
            !.consecutiveErrors = @ + 1,
            !.isConnected =
                IF checksLimit /\ C.consecutiveErrors + 1 >= maxConsecutiveErrors
                THEN FALSE ELSE @]

SendInputWithSequence(C, status) == AfterSend(C, status, TRUE)

SendPing(C, status) == AfterSend(C, status, FALSE)

\* the clock, in microseconds, as duration_cast<milliseconds> reads it
GetCurrentTimestamp(now) == Quot(now, 1000)

ApplyLocalInputWithPrediction(C, keys, dt, mousePos, status) ==
    IF ~C.predictionEnabled \/ ~C.isConnected \/ C.localPlayerId = 0 THEN C
    ELSE LET Cleaned(D, sequenceNumber) ==
                 IF sequenceNumber - D.lastCleanupSequence > CLEANUP_PERIOD
                 THEN [CleanupOldHistory(D, D.lastAcknowledgedInputSeq)
                          EXCEPT !.lastCleanupSequence = sequenceNumber]
                 ELSE D
             Predicted(D, input) ==
                 Cleaned(SendInputWithSequence(
                             StorePredictedState(
                                 [D EXCEPT !.localPlayer =
                                     ApplyInputToTank(@, input, mousePos)],
                                 C.nextSequenceNumber),
                             status),
                         C.nextSequenceNumber)
             Stored(input) == Predicted(StoreInput(C, input), input)
         IN Stored([sequenceNumber |-> 0, timestamp |-> GetCurrentTimestamp(C.now),
                    moveForward |-> keys.forward, moveBackward |-> keys.backward,
                    turnLeft |-> keys.left, turnRight |-> keys.right,
                    deltaTime |-> dt])

ReplayInputsAfterCorrection(C, fromSequence, mousePos) ==
    LET Replay(inputsToReplay) ==
            IF inputsToReplay = <<>> THEN C
            ELSE ClearReplayFlags(
                    [C EXCEPT !.localPlayer =
                        ReplayInputs(@, C.inputBuffer, inputsToReplay, mousePos)])
    IN Replay(GetInputsToReplay(C))

\* the squared position error the four tiers are chosen by
ErrorSq(C) ==
    DistSq(C.localPlayer.x, C.localPlayer.y,
           C.serverAuthoritativePosition.x, C.serverAuthoritativePosition.y)

\* the mouse position the snap tier derives from the barrel
FallbackMouse(tank) ==
    [x |-> tank.x + Quot(Cos1000(tank.barrelRotation) * MOUSE_DISTANCE, 1000),
     y |-> tank.y + Quot(Sin1000(tank.barrelRotation) * MOUSE_DISTANCE, 1000)]

\* the local tank set to the server's position and body rotation
Snapped(C) ==
    [C EXCEPT !.localPlayer.x = C.serverAuthoritativePosition.x,
              !.localPlayer.y = C.serverAuthoritativePosition.y,
              !.localPlayer.bodyRotation = C.serverAuthoritativeBodyRotation,
              !.isReconciling = FALSE]

\* one step of the smooth interpolation toward the reconciliation target
ContinueReconciling(C) ==
    LET Settle(D) ==
            IF DistSq(D.localPlayer.x, D.localPlayer.y,
                      C.reconciliationTargetPosition.x,
                      C.reconciliationTargetPosition.y)
                 < RECONCILED_DISTANCE * RECONCILED_DISTANCE
            THEN [D EXCEPT !.isReconciling = FALSE] ELSE D
        Wrapped(d) == IF d > 180 THEN d - 360 ELSE IF d < -180 THEN d + 360 ELSE d
        Lerp(from, to) == from + Quot((to - from) * LERP_FACTOR_1000, 1000)
    IN IF ~C.isReconciling THEN C
       ELSE Settle([C EXCEPT
               !.localPlayer.x = Lerp(@, C.reconciliationTargetPosition.x),
               !.localPlayer.y = Lerp(@, C.reconciliationTargetPosition.y),
               !.localPlayer.bodyRotation =
                   @ + Quot(Wrapped(C.reconciliationTargetRotation - @)
                              * LERP_FACTOR_1000, 1000)])

ApplyServerReconciliation(C) ==
    LET Targeted(D) ==
            [D EXCEPT !.reconciliationTargetPosition = C.serverAuthoritativePosition,
                      !.reconciliationTargetRotation = C.serverAuthoritativeBodyRotation,
                      !.isReconciling = TRUE]
        Medium ==
            MarkInputsForReplay(
                Targeted([C EXCEPT
                    !.localPlayer.x =
                        @ + Quot(C.serverAuthoritativePosition.x - @, 2),
                    !.localPlayer.y =
                        @ + Quot(C.serverAuthoritativePosition.y - @, 2),
                    !.localPlayer.bodyRotation = C.serverAuthoritativeBodyRotation]),
                C.lastAcknowledgedInputSeq + 1)
        Snap(D) ==
            ReplayInputsAfterCorrection(D, C.lastAcknowledgedInputSeq + 1,
                                        FallbackMouse(D.localPlayer))
        Tier(errorSq) ==
            IF errorSq < TINY_ERROR * TINY_ERROR THEN C
            ELSE IF errorSq < SMOOTH_CORRECTION_THRESHOLD * SMOOTH_CORRECTION_THRESHOLD
            THEN Targeted(C)
            ELSE IF errorSq < SNAP_CORRECTION_THRESHOLD * SNAP_CORRECTION_THRESHOLD
            THEN Medium
            ELSE Snap(Snapped(C))
    IN IF ~C.predictionEnabled \/ ~C.isConnected \/ C.localPlayerId = 0
       THEN ContinueReconciling(C)
       ELSE IF ~C.hasServerAuthoritativeState THEN ContinueReconciling(C)
       ELSE Tier(ErrorSq(C))

ClearServerAuthoritativeState(C) == [C EXCEPT !.hasServerAuthoritativeState = FALSE]

ProcessInputBuffer(C, dt) == CleanupTimedOutInputs(UpdateBufferTimers(C, dt))

\* NetworkClient::Update after its receive loop: timers, input buffer,
\* the ping when it is due
NetworkClientUpdate(C, dt, pingStatus) ==
    LET Pinged(D) ==
            IF D.pingTimer >= pingInterval
            THEN [SendPing(D, pingStatus) EXCEPT !.pingTimer = 0] ELSE D
    IN IF ~C.isConnected THEN C
       ELSE Pinged(ProcessInputBuffer([C EXCEPT !.pingTimer = @ + dt], dt))

\* ------------------------------------------------- datagrams to the client
\* A datagram is the record of the fields its sender wrote and cut, the
\* first part the receiver fails to extract ("none" when all of it
\* decodes); the lists hold the entries that decode before the cut.

\* one PlayerData of a GameState after the receiver's validation
ValidatedPlayer(player) ==
    [player EXCEPT
        !.playerName = IF IsValidPlayerName(@) THEN @
                      ELSE <<"P", "l", "a", "y", "e", "r", player.playerId>>,
        !.x = IF IsValidPosition(player.x, player.y) THEN @ ELSE ClampPositionX(@),
        !.y = IF IsValidPosition(player.x, player.y) THEN @ ELSE ClampPositionY(@),
        !.bodyRotation = IF IsValidRotation(@) THEN @ ELSE NormalizeRotation(@),
        !.barrelRotation = IF IsValidRotation(@) THEN @ ELSE NormalizeRotation(@),
        !.color = IF IsValidColor(@) THEN @ ELSE "green"]

\* the player loop of the GameState branch over the entries that decode
RECURSIVE ParsePlayers(_, _)
ParsePlayers(C, players) ==
    IF players = <<>> THEN C
    ELSE LET Keep(player) ==
                 IF player.playerId = C.localPlayerId /\ C.localPlayerId # 0
                 THEN [C EXCEPT
                         !.serverAuthoritativePosition = [x |-> player.x, y |-> player.y],
                         !.serverAuthoritativeBodyRotation = player.bodyRotation,
                         !.serverAuthoritativeIsDead = player.isDead,
                         !.hasServerAuthoritativeState = TRUE]
                 ELSE IF player.playerId # C.localPlayerId /\ C.localPlayerId # 0
                 THEN [C EXCEPT !.otherPlayers = With(@, player.playerId, player)]
                 ELSE C
         IN ParsePlayers(IF ~IsValidPlayerId(Head(players).playerId) THEN C
                         ELSE Keep(ValidatedPlayer(Head(players))),
                         Tail(players))

\* a map cleared and refilled from a list, keyed by the given field, later
\* entries winning
Keyed(entries, field) ==
    [k \in {entries[i][field] : i \in DOMAIN entries} |->
        entries[CHOOSE i \in DOMAIN entries :
                    /\ entries[i][field] = k
                    /\ \A j \in DOMAIN entries : entries[j][field] = k => j <= i]]

HandleInputAcknowledgment(C, msg) ==
    IF msg.playerId # C.localPlayerId THEN C
    ELSE [AcknowledgeInput(C, msg.acknowledgedSequence) EXCEPT
            !.lastAcknowledgedInputSeq =
                IF msg.acknowledgedSequence > @ THEN msg.acknowledgedSequence ELSE @]

HandleBulletUpdate(C, msg) ==
    [C EXCEPT !.bulletData = Keyed(msg.bullets, "bulletId")]

HandleBulletDestroy(C, msg) ==
    IF msg.bulletId \in DOMAIN C.bulletData
    THEN [C EXCEPT !.bulletData = Without(@, msg.bulletId)]
    ELSE C

\* the GameState branch of NetworkClient::ProcessPacket
ProcessGameState(C, packet) ==
    LET Trailer(D) ==
            IF packet.cut # "none" \/ ~packet.timestampValid THEN D
            ELSE LET Acked(F) ==
                         IF packet.lastAckedInput > 0
                            /\ packet.lastAckedInput > F.lastAcknowledgedInputSeq
                         THEN [AcknowledgeInput(F, packet.lastAckedInput) EXCEPT
                                 !.lastAcknowledgedInputSeq = packet.lastAckedInput]
                         ELSE F
                 IN [Acked(D) EXCEPT !.consecutiveErrors = 0]
        Enemies(D) ==
            Trailer(IF packet.cut \in {"players", "enemyCount"} THEN D
                    ELSE [D EXCEPT !.enemyData = Keyed(packet.enemies, "enemyId")])
    IN IF packet.cut = "playerCount"
          \/ ~IsValidPlayerCount(packet.playerCount)
       THEN [C EXCEPT !.consecutiveErrors = @ + 1]
       ELSE Enemies(ParsePlayers([C EXCEPT !.otherPlayers = <<>>], packet.players))

ClientProcessPacket(C, packet) ==
    IF packet.type = "EMPTY" THEN [C EXCEPT !.consecutiveErrors = @ + 1]
    ELSE IF packet.type = "GAME_STATE" THEN ProcessGameState(C, packet)
    ELSE IF packet.type = "PLAYER_ID_ASSIGNMENT"
    THEN IF packet.cut # "none" \/ ~IsValidPlayerId(packet.playerId)
         THEN [C EXCEPT !.consecutiveErrors = @ + 1]
         ELSE [C EXCEPT !.localPlayerId = packet.playerId, !.consecutiveErrors = 0]
    ELSE IF packet.type = "PONG"
    THEN IF packet.cut # "none" THEN [C EXCEPT !.consecutiveErrors = @ + 1]
         ELSE IF packet.originalTimestamp <= 0 THEN C
         ELSE [C EXCEPT !.consecutiveErrors = 0]
    ELSE IF packet.type = "BULLET_UPDATE"
    THEN IF packet.cut # "none" THEN C ELSE HandleBulletUpdate(C, packet)
    ELSE IF packet.type = "BULLET_DESTROY"
    THEN IF packet.cut # "none" THEN C ELSE HandleBulletDestroy(C, packet)
    ELSE IF packet.type = "INPUT_ACKNOWLEDGMENT"
    THEN IF packet.cut # "none" THEN C ELSE HandleInputAcknowledgment(C, packet)
    ELSE C

\* one turn of the receive loop of NetworkClient::ProcessIncomingMessages
ClientProcessIncoming(C, status, packet) ==
    IF status = "Done" THEN ClientProcessPacket([C EXCEPT !.consecutiveErrors = 0], packet)
    ELSE IF status = "Disconnected" THEN [C EXCEPT !.isConnected = FALSE]
    ELSE IF status = "Error"
    THEN [C EXCEPT !.consecutiveErrors = @ + 1,
                   !.isConnected = IF C.consecutiveErrors + 1 >= maxConsecutiveErrors
                                   THEN FALSE ELSE @]
    ELSE C

\* ------------------------------------------------- client steps
serverVars == <<clients, enemies, bullets, nextPlayerId, nextEnemyId, nextBulletId,
                outgoingSequenceNumber, gameStateUpdateTimer, bulletUpdateTimer,
                enemySpawnTimer, sent, snapshots, interpolation, receiveErrorRun,
                sinceShot>>

\* NetworkClient::Update is entered only while connected; one datagram or
\* socket status taken by its receive loop
ClientReceive(statuses, packets) ==
    \E status \in statuses, packet \in packets :
        /\ networkClient.isConnected
        /\ networkClient' = ClientProcessIncoming(networkClient, status, packet)
        /\ step' = [kind |-> "CLIENT_RECEIVE", status |-> status, packet |-> packet,
                    before |-> networkClient]
        /\ msgCount' = msgCount + 1
        /\ UNCHANGED <<serverVars, tickCount>>

\* the rest of one frame of MultiplayerGame::Update: NetworkClient::Update
\* after the receive loop, then, unless the server says the player is dead,
\* prediction of the frame's input and reconciliation, then
\* ClearServerAuthoritativeState when a server state was there.  The step
\* keeps the client as ApplyServerReconciliation found it.  The frame lasts
\* frameTime microseconds of the client's clock; the timers and the
\* prediction count it in whole milliseconds.
DeltaTimeMs(frameTime) == Quot(frameTime, 1000)

ClientFrameLasting(keySets, frameTimes, mice, statuses) ==
    \E keys \in keySets, frameTime \in frameTimes, mousePos \in mice,
       pingStatus \in statuses, sendStatus \in statuses :
        LET dt == DeltaTimeMs(frameTime)
            Finish(atReconcile, reconciles) ==
                /\ networkClient' =
                      [ClearServerAuthoritativeState(
                          IF reconciles THEN ApplyServerReconciliation(atReconcile)
                          ELSE atReconcile)
                       EXCEPT !.now = @ + frameTime]
                /\ step' = [kind |-> "CLIENT_FRAME", dt |-> dt, frameTime |-> frameTime,
                            pingStatus |-> pingStatus, sendStatus |-> sendStatus,
                            reconciles |-> reconciles,
                            atReconcile |-> atReconcile]
            Play(updated) ==
                IF updated.serverAuthoritativeIsDead
                THEN Finish(updated, FALSE)
                ELSE Finish(ApplyLocalInputWithPrediction(updated, keys, dt, mousePos,
                                                          sendStatus), TRUE)
        IN /\ Play(NetworkClientUpdate(networkClient, dt, pingStatus))
           /\ tickCount' = tickCount + 1
           /\ UNCHANGED <<serverVars, msgCount>>

\* a frame that lasts dt whole milliseconds
ClientFrame(keySets, dts, mice, statuses) ==
    ClientFrameLasting(keySets, {1000 * dt : dt \in dts}, mice, statuses)

\* ------------------------------------------------- a reconciliation session
MaxReconcileFrames == 6
MaxReconcileMsgs == 3

Pressed(forward, backward, left, right) ==
    [forward |-> forward, backward |-> backward, left |-> left, right |-> right]

\* the local player as the server reports it
ReportedPlayer(id, x, y, bodyRotation) ==
    [playerId |-> id, playerName |-> <<"A", "d", "a">>, x |-> x, y |-> y,
     bodyRotation |-> bodyRotation, barrelRotation |-> 0, color |-> "blue",
     isMoving_forward |-> FALSE, isMoving_backward |-> FALSE,
     isMoving_left |-> FALSE, isMoving_right |-> FALSE,
     health |-> 100, maxHealth |-> 100, score |-> 0, isDead |-> FALSE]

GameStatePacket(players, enemyList, lastAckedInput) ==
    [type |-> "GAME_STATE", cut |-> "none", playerCount |-> Len(players),
     players |-> players, enemies |-> enemyList, timestampValid |-> TRUE,
     lastAckedInput |-> lastAckedInput]

IdAssignPacket(id) == [type |-> "PLAYER_ID_ASSIGNMENT", cut |-> "none", playerId |-> id]

InputAckPacket(id, seq) ==
    [type |-> "INPUT_ACKNOWLEDGMENT", cut |-> "none", playerId |-> id,
     acknowledgedSequence |-> seq]

ReconcilePackets ==
    {IdAssignPacket(1), InputAckPacket(1, 1)}
    \cup { GameStatePacket(<<ReportedPlayer(1, x, 480, 0)>>, <<>>, acked) :
             x \in {640, 670}, acked \in {0, 2} }

ReconcileKeys == {Pressed(TRUE, FALSE, FALSE, FALSE), Pressed(TRUE, FALSE, FALSE, TRUE)}

NextReconcile ==
    \/ msgCount < MaxReconcileMsgs /\ ClientReceive({"Done"}, ReconcilePackets)
    \/ tickCount < MaxReconcileFrames
       /\ ClientFrame(ReconcileKeys, {100}, {Pos(900, 480)}, {"Done"})

SpecReconcile == Init /\ [][NextReconcile]_vars

\* the frame's reconciliation found fresh server data 50 units or more away
SnapCase(C) ==
    /\ C.predictionEnabled /\ C.isConnected /\ C.localPlayerId # 0
    /\ C.hasServerAuthoritativeState
    /\ ErrorSq(C) >= SNAP_CORRECTION_THRESHOLD * SNAP_CORRECTION_THRESHOLD

\* the buffered inputs from lastAcknowledgedInputSeq + 1 on, ascending
UnackedSeqs(C) ==
    SortedSeq({s \in DOMAIN C.inputBuffer : s >= C.lastAcknowledgedInputSeq + 1})

\* C11: after a frame whose reconciliation found a position error of 50
\* units or more, the local tank is the server's position and body rotation
\* with every buffered input of sequence >= lastAcknowledgedInputSeq + 1
\* applied to it once, in ascending sequence order.
C11_SnapReplaysUnackedInputs ==
    step.kind = "CLIENT_FRAME" /\ step.reconciles /\ SnapCase(step.atReconcile)
    => networkClient.localPlayer =
          ReplayInputs(Snapped(step.atReconcile).localPlayer,
                       step.atReconcile.inputBuffer,
                       UnackedSeqs(step.atReconcile),
                       FallbackMouse(Snapped(step.atReconcile).localPlayer))

\* ================================================= entity_interpolation.cpp
MAX_BUFFER_SIZE == 64

\* std::lower_bound by timestamp: the first position whose snapshot is not
\* before the given time, Len + 1 when there is none
LowerBound(buffer, timestamp) ==
    IF \E i \in DOMAIN buffer : ~(buffer[i].timestamp < timestamp)
    THEN CHOOSE i \in DOMAIN buffer :
            /\ ~(buffer[i].timestamp < timestamp)
            /\ \A j \in 1..(i - 1) : buffer[j].timestamp < timestamp
    ELSE Len(buffer) + 1

\* the while loop that pops the front until the size fits
RECURSIVE PopToSize(_)
PopToSize(buffer) ==
    IF Len(buffer) > MAX_BUFFER_SIZE THEN PopToSize(Tail(buffer)) ELSE buffer

\* EntityInterpolationBuffer::AddSnapshot on the deque; the velocities it
\* derives for the new snapshot do not decide its place and are left out
AddSnapshot(buffer, snapshot) ==
    LET Place(it) ==
            IF it <= Len(buffer) /\ buffer[it].timestamp = snapshot.timestamp
            THEN [buffer EXCEPT ![it] = snapshot]
            ELSE SubSeq(buffer, 1, it - 1) \o <<snapshot>>
                 \o SubSeq(buffer, it, Len(buffer))
    IN PopToSize(
         IF buffer = <<>> \/ snapshot.timestamp >= buffer[Len(buffer)].timestamp
         THEN Append(buffer, snapshot)
         ELSE Place(LowerBound(buffer, snapshot.timestamp)))

\* ------------------------------------------------- snapshots for one entity
MaxSnapshots == 3

\* the buffer after n snapshots that arrived in order, one every 10 ms
InOrder(n) == [i \in 1..n |-> [timestamp |-> 10 * i, x |-> 0]]

\* arrival times around the start and around the 64th snapshot, in order,
\* late and repeated
SnapshotTimes == {10, 15, 20, 630, 635, 640, 650}

InitInterpolation ==
    /\ clients = <<>>
    /\ enemies = <<>>
    /\ bullets = <<>>
    /\ nextPlayerId = FIRST_PLAYER_ID
    /\ nextEnemyId = FIRST_ENEMY_ID
    /\ nextBulletId = FIRST_BULLET_ID
    /\ outgoingSequenceNumber = 0
    /\ gameStateUpdateTimer = 0
    /\ bulletUpdateTimer = 0
    /\ enemySpawnTimer = 0
    /\ sent = <<>>
    /\ step = [kind |-> "START"]
    /\ tickCount = 0
    /\ msgCount = 0
    /\ networkClient = ConnectedClient
    /\ snapshots \in {InOrder(0), InOrder(MAX_BUFFER_SIZE - 1)}
    /\ interpolation = NewInterpolation
    /\ receiveErrorRun = 0
    /\ sinceShot = <<>>

AddEntitySnapshot(times, xs) ==
    \E timestamp \in times, x \in xs :
        /\ snapshots' = AddSnapshot(snapshots, [timestamp |-> timestamp, x |-> x])
        /\ step' = [kind |-> "ADD_SNAPSHOT", timestamp |-> timestamp, x |-> x,
                    before |-> snapshots]
        /\ tickCount' = tickCount + 1
        /\ UNCHANGED <<clients, enemies, bullets, nextPlayerId, nextEnemyId,
                       nextBulletId, outgoingSequenceNumber, gameStateUpdateTimer,
                       bulletUpdateTimer, enemySpawnTimer, sent, msgCount,
                       networkClient, interpolation, receiveErrorRun, sinceShot>>

NextInterpolation == tickCount < MaxSnapshots /\ AddEntitySnapshot(SnapshotTimes, {1, 2})

SpecInterpolation == InitInterpolation /\ [][NextInterpolation]_vars

\* C12: the snapshot buffer is strictly increasing in timestamp (so no
\* timestamp is held twice: a repeated one replaced the earlier entry) and
\* holds at most 64 snapshots.
C12_BufferStrictlyIncreasing ==
    /\ \A i \in 1..(Len(snapshots) - 1) :
          snapshots[i].timestamp < snapshots[i + 1].timestamp
    /\ Len(snapshots) <= MAX_BUFFER_SIZE

\* ================================================= bullets: life and identity
\* ------------------------------------------------- a shooting session
\* one player at the centre firing right and up; a 5 s frame brings a Red
\* tank 500 units to the right, which a bullet reaches in two frames of
\* half a second; the server loop never stops calling Update, so the frame
\* step is fair
MaxLifeMsgs == 3
MaxLifeTicks == 6

LifeDraws ==
    { [QuietDraws EXCEPT !.enemyType = "RED", !.spawn = Pos(1142, 480),
                         !.waypoint = Pos(1142, 480)] }

LifeBulletMsgs ==
    { [playerId |-> 1, spawnX |-> 642, spawnY |-> 480,
       directionX |-> d[1], directionY |-> d[2], timestampValid |-> TRUE] :
        d \in { <<1000, 0>>, <<0, -1000>> } }

LifeFrame == tickCount < MaxLifeTicks /\ Tick({500, 5000}, LifeDraws)

NextLife ==
    \/ msgCount = 0 /\ RecvJoin(OneJoinMsg, {Addr1}, {1})
    \/ msgCount > 0 /\ msgCount < MaxLifeMsgs
          /\ RecvBulletSpawn(LifeBulletMsgs, {Addr1})
    \/ LifeFrame

\* the frame step is the only one that changes tickCount and it is enabled
\* whenever tickCount < MaxLifeTicks (Update has no precondition), so weak
\* fairness of the frame step is weak fairness of this advance of tickCount
FrameAdvances == tickCount < MaxLifeTicks /\ tickCount' = tickCount + 1

SpecLife == Init /\ [][NextLife]_vars /\ WF_tickCount(FrameAdvances)

\* the bullet touches a live entity of the other side, as
\* CheckBulletCollisions tests it on the given enemies and clients
TouchesOpponent(W, b) ==
    IF b.ownerId >= ENEMY_ID_BOUNDARY
    THEN FirstPlayerHit(W, b, Keys(W.clients)) # 0
    ELSE FirstEnemyHit(W, b, Keys(W.enemies)) # 0

\* every bullet the map holds has lifetime left, is not destroyed and is
\* inside the playable rectangle; after a tick none touches an opponent as
\* the bullet phase left them
BulletsAlive ==
    \A id \in DOMAIN bullets :
        /\ bullets[id].lifetime > 0
        /\ ~bullets[id].isDestroyed
        /\ ~OutsidePlayable(bullets[id])
        /\ step.kind = "TICK" => ~TouchesOpponent(step.afterBullets, bullets[id])

\* a tick takes its length from the lifetime of every bullet it keeps and
\* keeps none whose lifetime it brings to 0 or below
LifetimeRunsDown ==
    step'.kind = "TICK"
    => \A id \in DOMAIN bullets :
          IF id \in DOMAIN bullets'
          THEN /\ bullets'[id].lifetime = bullets[id].lifetime - step'.dt
               /\ bullets'[id].lifetime > 0
          ELSE TRUE

\* the ids a session can give to bullets
LifeBulletIds == FIRST_BULLET_ID..(FIRST_BULLET_ID + MaxLifeMsgs)

\* C13: every bullet in the map has lifetime left, has hit nothing and is
\* inside the playable rectangle (the tick that ends its lifetime, brings it
\* onto an opposing entity or takes it outside removes it), and no bullet
\* stays for ever: a bullet in the map is gone once frames of at least half
\* a second have used up its remaining lifetime.
C13_BulletsAreRemoved ==
    /\ []BulletsAlive
    /\ [][LifetimeRunsDown]_vars
    /\ [](DOMAIN bullets \subseteq LifeBulletIds)
    /\ \A id \in LifeBulletIds :
          (/\ id \in DOMAIN bullets
           /\ tickCount + (bullets[id].lifetime + 499) \div 500 <= MaxLifeTicks)
            ~> (id \notin DOMAIN bullets)

\* C13 witness: a tick removed a bullet that hit the Red tank and kept one
\* that is still flying
C13_Witness ==
    /\ step.kind = "TICK"
    /\ \E e \in DOMAIN enemies : Cardinality(HitsOn(sent, e)) > 0
    /\ \E id \in DOMAIN bullets : bullets[id].lifetime < BulletLifetime("PLAYER_STANDARD")
    /\ nextBulletId > FIRST_BULLET_ID + Cardinality(DOMAIN bullets)

\* ------------------------------------------------- an armed session
\* one player 130 units right of a Purple tank; bullet requests come from the player,
\* from its address under another id and from a foreign address
MaxArmedMsgs == 3
MaxArmedTicks == 6

ArmedDraws ==
    { [QuietDraws EXCEPT !.enemyType = "PURPLE", !.spawn = Pos(510, 480),
                         !.waypoint = Pos(510, 480)] }

ArmedBulletMsgs ==
    { [playerId |-> p, spawnX |-> 642, spawnY |-> 480,
       directionX |-> -1000, directionY |-> 0, timestampValid |-> TRUE] :
        p \in {1, 2} }

NextArmed ==
    \/ tickCount = 0 /\ msgCount = 0 /\ RecvJoin(OneJoinMsg, {Addr1}, {1})
    \/ msgCount > 0 /\ msgCount < MaxArmedMsgs
          /\ RecvBulletSpawn(ArmedBulletMsgs, {Addr1, Addr2})
    \/ msgCount > 0 /\ tickCount < MaxArmedTicks /\ Tick({100, 5000}, ArmedDraws)

SpecArmed == Init /\ [][NextArmed]_vars

\* the bullets a step put into the map
NewBulletIds == DOMAIN bullets' \ DOMAIN bullets

\* a bullet request puts a bullet into the map only for a client the map
\* held when the request came; the enemies phase of a tick only for an enemy
\* that is alive in the map when the phase is over (the phase changes no
\* enemy's health and ends by removing the dead)
OwnerExistedAtCreation ==
    \A id \in NewBulletIds :
        IF step'.kind = "TICK"
        THEN /\ bullets'[id].ownerId \in DOMAIN step'.atBullets.enemies
             /\ ~EnemyIsDead(step'.atBullets.enemies[bullets'[id].ownerId])
        ELSE /\ bullets'[id].ownerId \in DOMAIN clients
             /\ clients[bullets'[id].ownerId].isActive

BulletsWellFormed ==
    \A id \in DOMAIN bullets :
        /\ id >= FIRST_BULLET_ID
        /\ bullets[id].lifetime <= BulletLifetime(bullets[id].bulletType)

\* C14: every bullet in the map has an id of 10000 or more and at most the
\* initial lifetime of its type left, and the owner of a bullet a step puts
\* into the map was a client of the map (player bullet) or a live enemy of
\* the map (enemy bullet) when the bullet was created.
C14_BulletIdentity == []BulletsWellFormed /\ [][OwnerExistedAtCreation]_vars

\* C14 witness: the map holds a bullet of the player and a bullet of an
\* enemy, one of them already in flight for a tick
C14_Witness ==
    /\ \E id \in DOMAIN bullets : bullets[id].ownerId < ENEMY_ID_BOUNDARY
    /\ \E id \in DOMAIN bullets : bullets[id].ownerId >= ENEMY_ID_BOUNDARY
    /\ \E id \in DOMAIN bullets :
          bullets[id].lifetime < BulletLifetime(bullets[id].bulletType)

\* ------------------------------------------------- a session of rejoins
\* one address joins, stays silent until the server times it out (a frame
\* longer than clientTimeoutDuration), and joins again, over and over
MaxChurnJoins == 1000

NextChurn ==
    \/ clients = <<>> /\ msgCount < MaxChurnJoins
          /\ RecvJoin(OneJoinMsg, {Addr1}, {1})
    \/ clients # <<>> /\ Tick({clientTimeoutDuration + 1000}, {QuietDraws})

SpecChurn == Init /\ [][NextChurn]_vars

\* C15: the ids of the clients lie in [1, 1000), the ids of the enemies in
\* [1000, 10000) and the ids of the bullets are 10000 or more, so that no id
\* is in two of the maps.
C15_IdRangesDisjoint ==
    /\ \A p \in DOMAIN clients : p >= FIRST_PLAYER_ID /\ p < FIRST_ENEMY_ID
    /\ \A e \in DOMAIN enemies : e >= FIRST_ENEMY_ID /\ e < FIRST_BULLET_ID
    /\ \A b \in DOMAIN bullets : b >= FIRST_BULLET_ID

\* ------------------------------------------------- a lobby session
\* joins from two addresses with an empty, a valid and an overlong name,
\* without a colour wish, with a palette colour, with a colour outside the
\* palette and with one of 21 characters; a long frame times the clients out
MaxLobbyMsgs == 3
MaxLobbyTicks == 2

LobbyNames ==
    { <<>>, <<"A", "d", "a">>, [i \in 1..(MAX_PLAYER_NAME_LENGTH + 1) |-> "x"] }

LobbyColors == { "", "red", "pink", "aaaaaaaaaaaaaaaaaaaaa" }

LobbyJoinMsgs ==
    { [playerName |-> n, preferredColor |-> c, sequenceNumber |-> 1] :
        n \in LobbyNames, c \in LobbyColors }

NextLobby ==
    \/ msgCount < MaxLobbyMsgs /\ RecvJoin(LobbyJoinMsgs, {Addr1, Addr2}, {1})
    \/ tickCount < MaxLobbyTicks
          /\ Tick({16, clientTimeoutDuration + 1000}, {QuietDraws})

SpecLobby == Init /\ [][NextLobby]_vars

\* the datagrams of the type among those of the step
SentNow(type) == {i \in 1..Len(sent') : sent'[i].type = type}

\* the step took a Join with a valid name from an address without a client
JoinFromNewAddress ==
    /\ step'.kind = "JOIN"
    /\ IsValidPlayerName(step'.msg.playerName)
    /\ FindPlayerByAddress(clients, step'.from) = 0

\* the Join made one client, under the next free id, at the centre and in
\* full health
OnePlayerCreated ==
    /\ nextPlayerId \notin DOMAIN clients
    /\ DOMAIN clients' = DOMAIN clients \cup {nextPlayerId}
    /\ clients'[nextPlayerId].playerData.playerId = nextPlayerId
    /\ clients'[nextPlayerId].playerData.x = 640
    /\ clients'[nextPlayerId].playerData.y = 480
    /\ clients'[nextPlayerId].playerData.health = 100
    /\ clients'[nextPlayerId].playerData.maxHealth = 100
    /\ clients'[nextPlayerId].playerData.score = 0
    /\ clients'[nextPlayerId].playerData.isDead = FALSE

\* the first two datagrams of the step go to the joining address: the
\* IdAssign with the new id, then a GameState that lists the new player
RepliedInOrder ==
    /\ Len(sent') >= 2
    /\ sent'[1].type = "PLAYER_ID_ASSIGNMENT"
    /\ sent'[1].to = {step'.from}
    /\ sent'[1].playerId = nextPlayerId
    /\ sent'[2].type = "GAME_STATE"
    /\ sent'[2].to = {step'.from}
    /\ nextPlayerId \in DOMAIN sent'[2].players
    /\ sent'[2].players[nextPlayerId] = clients'[nextPlayerId].playerData
    /\ sent'[2].lastAckedInput = 0

\* C16: a Join with a valid name from an address that has no client makes
\* exactly one player, under the next free id, at (640,480) with health 100,
\* maxHealth 100, score 0 and isDead false; in the same step the server
\* sends the address an IdAssign with that id and then a GameState that
\* lists the player, with sequence number 1 and lastAcked 0.
C16_JoinRepliesWithSequenceOne ==
    [][JoinFromNewAddress
         => /\ OnePlayerCreated
            /\ RepliedInOrder
            /\ sent'[2].sequenceNumber = 1]_vars

\* the colours the palette names
PaletteColors == {"red", "blue", "green", "black"}

\* C17: a Join whose name is empty or longer than 50 characters, or whose
\* colour wish is none of red, blue, green and black, is rejected as a
\* whole: the client map and the next player id stay as they are and neither
\* an IdAssign nor a GameState is sent.
C17_InvalidJoinRejected ==
    [][(/\ step'.kind = "JOIN"
        /\ \/ Len(step'.msg.playerName) = 0
           \/ Len(step'.msg.playerName) > 50
           \/ /\ step'.msg.preferredColor # ""
              /\ step'.msg.preferredColor \notin PaletteColors)
         => /\ clients' = clients
            /\ nextPlayerId' = nextPlayerId
            /\ SentNow("PLAYER_ID_ASSIGNMENT") = {}
            /\ SentNow("GAME_STATE") = {}]_vars

\* ================================================= decoding
\* GameServer::ProcessPacket: the type byte, then the fields of the type;
\* the handler runs only when every field is extracted.  packet.cut is
\* "none" when all of the datagram decodes
ProcessPacket(W, packet, addr, pick) ==
    IF packet.type = "EMPTY" \/ packet.cut # "none" THEN W
    ELSE IF packet.type = "PLAYER_JOIN"
    THEN HandleJoinRequest(W, packet.msg, addr, pick)
    ELSE IF packet.type = "PLAYER_UPDATE" THEN HandlePlayerUpdate(W, packet.msg, addr)
    ELSE IF packet.type = "PLAYER_INPUT" THEN HandlePlayerInput(W, packet.msg, addr)
    ELSE IF packet.type = "BULLET_SPAWN" THEN HandleBulletSpawn(W, packet.msg, addr)
    ELSE IF packet.type = "PING" THEN HandlePing(W, packet.msg, addr)
    ELSE W

RecvPacket(packets, addrs, picks) ==
    \E packet \in packets, addr \in addrs, pick \in picks :
        Receive("PACKET", packet, addr, ProcessPacket(World, packet, addr, pick))

\* ------------------------------------------------- a session of bad datagrams
\* server and client each take whole datagrams, datagrams cut short at every
\* place a GameState can end, one of an unknown type and an empty one
MaxGarbledMsgs == 3

Datagram(type, cut, msg) == [type |-> type, cut |-> cut, msg |-> msg]

GarbledServerPackets ==
    { Datagram("PLAYER_JOIN", cut, msg) : cut \in {"none", "fields"}, msg \in OneJoinMsg }
    \cup { Datagram("BULLET_SPAWN", cut, msg) :
             cut \in {"none", "fields"}, msg \in HuntBulletMsgs }
    \cup { Datagram("UNKNOWN", "none", <<>>), Datagram("EMPTY", "none", <<>>) }

SeenEnemy(id) ==
    [enemyId |-> id, enemyType |-> "RED", x |-> 300, y |-> 300,
     bodyRotation |-> 0, barrelRotation |-> 0, health |-> 100, maxHealth |-> 100]

SeenBullet(id) ==
    [bulletId |-> id, ownerId |-> 2, bulletType |-> "PLAYER_STANDARD",
     x |-> 700, y |-> 480, velocityX |-> 500, velocityY |-> 0, damage |-> 25]

\* a GameState for two players and two enemies that ends at the cut: the
\* lists hold what decodes before it
CutGameState(cut) ==
    [GameStatePacket(
        IF cut = "playerCount" THEN <<>>
        ELSE IF cut = "players" THEN <<ReportedPlayer(1, 670, 480, 0)>>
        ELSE <<ReportedPlayer(1, 670, 480, 0), ReportedPlayer(2, 700, 500, 0)>>,
        IF cut \in {"playerCount", "players", "enemyCount"} THEN <<>>
        ELSE IF cut = "enemies" THEN <<SeenEnemy(1001)>>
        ELSE <<SeenEnemy(1000), SeenEnemy(1001)>>,
        0)
     EXCEPT !.cut = cut, !.playerCount = 2]

GarbledClientPackets ==
    { IdAssignPacket(1),
      [IdAssignPacket(1) EXCEPT !.cut = "fields"],
      [type |-> "UNKNOWN", cut |-> "none"],
      [type |-> "EMPTY", cut |-> "none"] }
    \cup { CutGameState(cut) :
             cut \in {"none", "playerCount", "players", "enemyCount",
                      "enemies", "trailer"} }
    \cup { [type |-> "BULLET_UPDATE", cut |-> cut, bullets |-> <<SeenBullet(10000)>>] :
             cut \in {"none", "fields"} }

NextGarbled ==
    \/ msgCount < MaxGarbledMsgs /\ RecvPacket(GarbledServerPackets, {Addr1}, {1})
    \/ msgCount < MaxGarbledMsgs /\ ClientReceive({"Done"}, GarbledClientPackets)

SpecGarbled == Init /\ [][NextGarbled]_vars

\* the receiver cannot decode the datagram: no type byte, a type it does not
\* know, or fields that end early
Undecodable(packet) ==
    packet.type \in {"EMPTY", "UNKNOWN"} \/ packet.cut # "none"

\* the maps and the stashed server state of the client
ClientWorldView(C) ==
    <<C.otherPlayers, C.enemyData, C.bulletData,
      C.hasServerAuthoritativeState, C.serverAuthoritativePosition,
      C.serverAuthoritativeBodyRotation, C.serverAuthoritativeIsDead>>

\* C18: a datagram its receiver cannot decode changes nothing there: the
\* server's client, enemy and bullet maps, and the client's other-player,
\* enemy and bullet maps and stashed server-authoritative state, are after
\* the drop what they were before it.
C18_UndecodableChangesNothing ==
    [][/\ (step'.kind = "PACKET" /\ Undecodable(step'.msg))
            => /\ clients' = clients
               /\ enemies' = enemies
               /\ bullets' = bullets
       /\ (step'.kind = "CLIENT_RECEIVE" /\ Undecodable(step'.packet))
            => ClientWorldView(networkClient') = ClientWorldView(networkClient)]_vars

\* ================================================= connection health
\* ------------------------------------------------- a session on a bad link
\* the client's socket answers its receives and its sends with every
\* status; a frame lasts a ping interval, so that every frame pings
MaxLinkMsgs == 2
MaxLinkFrames == 6

SocketStatuses == {"Done", "NotReady", "Error", "Disconnected"}

NextLink ==
    \/ msgCount < MaxLinkMsgs /\ ClientReceive(SocketStatuses, {IdAssignPacket(1)})
    \/ tickCount < MaxLinkFrames
          /\ ClientFrame({Pressed(FALSE, FALSE, FALSE, FALSE)}, {pingInterval},
                         {Pos(900, 480)}, {"Done", "NotReady", "Error"})

SpecLink == Init /\ [][NextLink]_vars

\* a receive or a frame of sends that only meets NotReady leaves the error
\* counter as it is
NotReadyCountsNothing ==
    /\ (step'.kind = "CLIENT_RECEIVE" /\ step'.status = "NotReady")
          => networkClient'.consecutiveErrors = networkClient.consecutiveErrors
    /\ (/\ step'.kind = "CLIENT_FRAME"
        /\ step'.pingStatus = "NotReady" /\ step'.sendStatus = "NotReady")
          => networkClient'.consecutiveErrors = networkClient.consecutiveErrors

\* a datagram received and decoded, and a frame whose sends all succeed,
\* leave the error counter at 0
DoneResetsCounter ==
    /\ (/\ step'.kind = "CLIENT_RECEIVE"
        /\ step'.status = "Done" /\ ~Undecodable(step'.packet))
          => networkClient'.consecutiveErrors = 0
    /\ (/\ step'.kind = "CLIENT_FRAME" /\ networkClient.isConnected
        /\ step'.pingStatus = "Done" /\ step'.sendStatus = "Done"
        /\ networkClient.pingTimer + step'.dt >= pingInterval)
          => networkClient'.consecutiveErrors = 0

DisconnectedIsTerminal ==
    (step'.kind = "CLIENT_RECEIVE" /\ step'.status = "Disconnected")
        => ~networkClient'.isConnected

\* C19: on the client NotReady never counts as an error, a successful send
\* or receive sets the error counter to 0, a Disconnected receive marks the
\* client disconnected at once, and a client whose counter has reached 5 is
\* marked disconnected, whichever of the send, ping and receive paths
\* counted the fifth error.
C19_FiveErrorsDisconnect ==
    /\ [][NotReadyCountsNothing /\ DoneResetsCounter /\ DisconnectedIsTerminal]_vars
    /\ [](networkClient.consecutiveErrors >= maxConsecutiveErrors
            => ~networkClient.isConnected)

\* ------------------------------------------------- the server's receive loop
\* GameServer::ProcessIncomingMessages when socket.receive returns a status
\* other than Done: every branch leaves the loop, two of them after a line
\* to the log; no field of the server is written
ProcessIncomingMessages(W, status) ==
    W

RecvStatus(statuses) ==
    \E status \in statuses :
        /\ Commit(ProcessIncomingMessages(World, status))
        /\ step' = [kind |-> "RECV_STATUS", status |-> status]
        /\ receiveErrorRun' = IF status \in {"Error", "Disconnected"}
                              THEN receiveErrorRun + 1
                              ELSE receiveErrorRun
        /\ UNCHANGED <<tickCount, msgCount, sinceShot>>

\* ------------------------------------------------- a session with a failing socket
\* two players join; between the frames the server's receive returns
\* NotReady, Error or Disconnected
MaxOutageMsgs == 2
MaxOutageTicks == 3
MaxErrorRun == 6

NextOutage ==
    \/ msgCount < MaxOutageMsgs /\ RecvJoin(OneJoinMsg, {Addr1, Addr2}, {1})
    \/ receiveErrorRun < MaxErrorRun
          /\ RecvStatus({"NotReady", "Error", "Disconnected"})
    \/ tickCount < MaxOutageTicks /\ Tick({16, 2000}, {QuietDraws})

SpecOutage == Init /\ [][NextOutage]_vars

\* the players that joined and are no longer held as active clients
LostClients ==
    { id \in FIRST_PLAYER_ID..(nextPlayerId - 1) :
        id \notin DOMAIN clients \/ ~clients[id].isActive }

\* C20: on the server NotReady does not count as an error, and once the
\* receive has returned Error or Disconnected 5 times in a row a client that
\* had joined is marked lost.
C20_FiveErrorsLoseClient ==
    (receiveErrorRun >= 5 /\ nextPlayerId > FIRST_PLAYER_ID) => LostClients # {}

\* ================================================= enemy AI
\* ------------------------------------------------- a session with a lost target
\* one player joins and falls silent; a Red or a Purple tank spawns 360 units
\* to its right, inside its detection range and outside 0.7 of its attack
\* range; frames of 0.1 s, 5 s and 16 s, so that the server times the player
\* out while the tank chases it
MaxLostTicks == 5

LostDraws ==
    { [QuietDraws EXCEPT !.enemyType = t, !.spawn = Pos(1000, 480)] :
        t \in {"RED", "PURPLE"} }

NextLost ==
    \/ msgCount = 0 /\ RecvJoin(OneJoinMsg, {Addr1}, {1})
    \/ tickCount < MaxLostTicks /\ Tick({100, 5000, 16000}, LostDraws)

SpecLost == Init /\ [][NextLost]_vars

\* C21: no enemy is left in the Chase state without a target: the AI update
\* of a tick on which a chasing enemy has no target puts it into Patrol.
C21_ChaseNeedsTarget ==
    \A id \in DOMAIN enemies :
        enemies[id].currentAIState = "CHASE" => enemies[id].targetPlayerId # 0

\* ------------------------------------------------- a session under fire
\* one player joins and stands still; a Red, a Black or a Purple tank spawns
\* 130 units to its left, inside 0.7 of every attack range, its barrel on
\* the player; frames of 0.4 s, 1 s and 5 s after the join
MaxGunTicks == 7

GunDraws ==
    { [QuietDraws EXCEPT !.enemyType = t, !.spawn = Pos(510, 480)] :
        t \in {"RED", "BLACK", "PURPLE"} }

NextGunnery ==
    \/ msgCount = 0 /\ tickCount = 0 /\ RecvJoin(OneJoinMsg, {Addr1}, {1})
    \/ tickCount < MaxGunTicks /\ Tick({400, 1000, 5000}, GunDraws)

SpecGunnery == Init /\ [][NextGunnery]_vars

\* the enemies that live through the step
Survivors == DOMAIN enemies \cap DOMAIN enemies'

\* a shot needs a cooldown that has run out and the Attack state, and sets
\* cooldown and burst counter as TryShoot is specified; without a shot the
\* burst counter stays
ShotsHonourCooldown ==
    step'.kind = "TICK" =>
        \A id \in Survivors :
            LET Shot(b, a, dt, cd, burst) ==
                    IF FiredInTick(b, a, dt)
                    THEN /\ b.shootCooldown - dt <= 0
                         /\ a.currentAIState = "ATTACK"
                         /\ IF b.shotsInBurst + 1 >= burst
                            THEN a.shootCooldown = (3 * cd) \div 2 /\ a.shotsInBurst = 0
                            ELSE a.shootCooldown = cd
                                 /\ a.shotsInBurst = b.shotsInBurst + 1
                         /\ id \in DOMAIN sinceShot => sinceShot[id] + dt >= cd
                    ELSE a.shotsInBurst = b.shotsInBurst
            IN Shot(enemies[id], enemies'[id], step'.dt,
                    ShootCooldownTime(enemies[id].enemyType),
                    MaxBurstSize(enemies[id].enemyType))

\* C22: an enemy fires only with its cooldown at 0 and in the Attack state;
\* a shot restarts the cooldown at the type's shoot cooldown, the shot that
\* completes a burst at 1.5 times that with the burst counter back at 0; two
\* shots of one enemy are at least a shoot cooldown of tick time apart.
C22_ShotsRespectCooldown == [][ShotsHonourCooldown]_vars

\* a tank with bursts of more than one shot has just completed a burst
C22_Witness ==
    /\ step.kind = "TICK"
    /\ \E id \in DOMAIN enemies \cap DOMAIN sinceShot :
          /\ sinceShot[id] = 0
          /\ MaxBurstSize(enemies[id].enemyType) > 1
          /\ enemies[id].shotsInBurst = 0
          /\ enemies[id].shootCooldown > ShootCooldownTime(enemies[id].enemyType)

\* ------------------------------------------------- properties: damage
\* the hits of enemy bullets on player p among the datagrams
EnemyHitsOn(out, p) ==
    {i \in SentOfType(out, "BULLET_DESTROY") :
        out[i].destroyReason = 1 /\ out[i].hitTargetId = p}

\* C23: every hit of an enemy bullet takes 25 from the player's health, so
\* that a player at 100 goes to 75, 50, 25 and 0 and is dead with the fourth
\* hit.
C23_EnemyHitTakes25 ==
    [][step'.kind = "TICK" =>
         \A p \in DOMAIN step'.atBullets.clients :
             step'.afterBullets.clients[p].playerData.health =
                 Max(0, step'.atBullets.clients[p].playerData.health
                        - 25 * Cardinality(EnemyHitsOn(step'.afterBullets.out, p)))]_vars

\* ------------------------------------------------- properties: death notice
\* C24: every PlayerDeath the server sends carries scorePenalty = 100,
\* whatever the score of the player was, and the score of the player becomes
\* max(0, score - 100).
C24_DeathPenaltyIs100 ==
    [][step'.kind = "DEATH_CHECK" =>
         \A i \in SentOfType(sent', "PLAYER_DEATH") :
             /\ sent'[i].scorePenalty = DEATH_PENALTY
             /\ clients'[sent'[i].playerId].score =
                    Max(0, clients[sent'[i].playerId].score - DEATH_PENALTY)]_vars

\* ------------------------------------------------- a session with a crowded centre
\* the fight again, the client sending nothing but a ping: a Purple tank spawns 130
\* units from the centre, where the player stands, and kills it; every
\* candidate the generator draws for the respawn is either the far corner
\* or a place 60 units from the centre
MaxRespawnTicks == 48
MaxRespawnMsgs == 2

RespawnDraws ==
    { [QuietDraws EXCEPT !.enemyType = "PURPLE", !.spawn = Pos(770, 480),
                         !.waypoint = Pos(770, 480),
                         !.respawn1 = r1, !.respawn2 = r2] :
        r1 \in { Pos(200, 200), Pos(700, 480) },
        r2 \in { Pos(200, 200), Pos(700, 480) } }

NextRespawn ==
    \/ tickCount = 0 /\ msgCount = 0 /\ RecvJoin(OneJoinMsg, {Addr1}, {1})
    \/ msgCount > 0 /\ msgCount < MaxRespawnMsgs /\ RecvPing(PingMsgs, {Addr1})
    \/ msgCount > 0 /\ tickCount < MaxRespawnTicks /\ Tick({300}, RespawnDraws)

SpecRespawn == Init /\ [][NextRespawn]_vars

\* the point is 200 units or more from every live enemy and from every
\* other player that is active and alive
FarFromAll(x, y, es, cs, self) ==
    /\ \A e \in DOMAIN es :
          es[e].currentHealth <= 0
          \/ DistSq(x, y, es[e].x, es[e].y) >= 200 * 200
    /\ \A p \in DOMAIN cs \ {self} :
          \/ ~cs[p].isActive \/ cs[p].isDead
          \/ DistSq(x, y, cs[p].playerData.x, cs[p].playerData.y) >= 200 * 200

\* C25: the position of every respawn is at least 200 units from every
\* enemy and from every alive player present at that moment.
C25_RespawnFarFromThreats ==
    [][step'.kind = "TICK" =>
         \A i \in SentOfType(sent', "PLAYER_RESPAWN") :
             FarFromAll(sent'[i].spawnX, sent'[i].spawnY, enemies',
                        step'.atRespawn, sent'[i].playerId)]_vars

\* ------------------------------------------------- a session of corrections
\* the client drives straight at a mouse held far to its right, in frames of
\* 0.5 s, or stands; the server reports it 35 units behind where the third
\* frame puts it, at the start, or where the first frame puts it
MaxAimFrames == 4
MaxAimMsgs == 3

AimPackets ==
    {IdAssignPacket(1)}
    \cup { GameStatePacket(<<ReportedPlayer(1, x, 480, 0)>>, <<>>, 0) :
             x \in {640, 715, 830} }

AimKeys == {Pressed(TRUE, FALSE, FALSE, FALSE), Pressed(FALSE, FALSE, FALSE, FALSE)}

NextAim ==
    \/ msgCount < MaxAimMsgs /\ ClientReceive({"Done"}, AimPackets)
    \/ tickCount < MaxAimFrames
       /\ ClientFrame(AimKeys, {500}, {Pos(1200, 480)}, {"Done"})

SpecAim == Init /\ [][NextAim]_vars

\* C26: reconciliation with the server leaves the barrel rotation of the
\* local tank as it found it, in every tier: ignore, smooth, halfway, and
\* snap with replay.
C26_BarrelNeverReconciled ==
    (step.kind = "CLIENT_FRAME" /\ step.reconciles)
        => networkClient.localPlayer.barrelRotation =
               step.atReconcile.localPlayer.barrelRotation

\* ------------------------------------------------- properties: bullet notices
\* the bullets the step takes out of the map, those created in the step
\* included
RemovedBullets ==
    (DOMAIN bullets \cup nextBulletId..(nextBulletId' - 1)) \ DOMAIN bullets'

\* the BulletDestroy datagrams for one bullet id
DestroysOf(out, id) ==
    {i \in SentOfType(out, "BULLET_DESTROY") : out[i].bulletId = id}

\* the tick ends the lifetime of the bullet; a bullet an enemy fires in the
\* tick starts it with the full lifetime of its type
RanOut(id, dt) ==
    IF id \in DOMAIN bullets
    THEN bullets[id].lifetime <= dt
    ELSE BulletLifetime("ENEMY_STANDARD") <= dt

\* C27: for every bullet a tick removes from the bullet map the server
\* broadcasts exactly one BulletDestroy with that bullet id: with reason 0
\* when the lifetime ran out, and otherwise 1 for a hit on a player, 2 for a
\* hit on an enemy, 3 for leaving the playable rectangle.
C27_OneDestroyPerRemovedBullet ==
    [][(step'.kind = "TICK" /\ DOMAIN step'.atBullets.clients # {}) =>
         \A id \in RemovedBullets :
             /\ Cardinality(DestroysOf(sent', id)) = 1
             /\ \A i \in DestroysOf(sent', id) :
                   IF RanOut(id, step'.dt)
                   THEN sent'[i].destroyReason = 0
                   ELSE sent'[i].destroyReason \in 1..3]_vars

\* ------------------------------------------------- a session of a late joiner
\* one address joins and is timed out, over and over, until the server has
\* handed out the player ids below 1000; then two addresses join, the second
\* player walks 100 units to the right of the centre and the first fires
\* along the x axis from its barrel end
ChurnRounds == ENEMY_ID_BOUNDARY - 1
MaxVeteranMsgs == 4
MaxVeteranTicks == 2

VeteranIds == {ENEMY_ID_BOUNDARY, ENEMY_ID_BOUNDARY + 1}

VeteranMoves ==
    { [playerId |-> p, sequenceNumber |-> 3, x |-> 740, y |-> 480,
       bodyRotation |-> 0, barrelRotation |-> 0,
       isMoving_forward |-> FALSE, isMoving_backward |-> FALSE,
       isMoving_left |-> FALSE, isMoving_right |-> FALSE] : p \in VeteranIds }

VeteranShots ==
    { [playerId |-> p, spawnX |-> 670, spawnY |-> 480,
       directionX |-> 1000, directionY |-> 0, timestampValid |-> TRUE] :
        p \in VeteranIds }

NextVeteran ==
    \/ tickCount < ChurnRounds /\ clients = <<>>
          /\ RecvJoin(OneJoinMsg, {Addr1}, {1})
    \/ tickCount < ChurnRounds /\ clients # <<>>
          /\ Tick({clientTimeoutDuration + 1000}, {QuietDraws})
    \/ tickCount >= ChurnRounds /\ msgCount < ChurnRounds + MaxVeteranMsgs
          /\ RecvJoin(OneJoinMsg, {Addr1, Addr2}, {1})
    \/ tickCount >= ChurnRounds /\ msgCount < ChurnRounds + MaxVeteranMsgs
          /\ RecvPlayerUpdate(VeteranMoves, {Addr2})
    \/ tickCount >= ChurnRounds /\ msgCount < ChurnRounds + MaxVeteranMsgs
          /\ RecvBulletSpawn(VeteranShots, {Addr1})
    \/ tickCount >= ChurnRounds /\ tickCount < ChurnRounds + MaxVeteranTicks
          /\ Tick({100}, {QuietDraws})

SpecVeteran == Init /\ [][NextVeteran]_vars

\* ------------------------------------------------- properties: sides
\* HandleBulletSpawn makes the bullets of the players PLAYER_STANDARD and
\* SpawnEnemyBullet those of the enemies ENEMY_STANDARD
FiredByPlayer(id) ==
    id \in DOMAIN bullets /\ bullets[id].bulletType = "PLAYER_STANDARD"

HealthOfPlayers(cs) == [p \in DOMAIN cs |-> cs[p].playerData.health]

HealthOfEnemies(es) == [e \in DOMAIN es |-> es[e].currentHealth]

\* C28: a bullet a player fired never takes health from a player and a
\* bullet an enemy fired never takes health from an enemy, whatever ids the
\* server has handed out: a hit on a player is by a bullet of an enemy and a
\* hit on an enemy by a bullet of a player, and the bullet pass of a tick in
\* which only bullets of players fly leaves the health of the players as it
\* was, as one with only bullets of enemies leaves that of the enemies.
C28_BulletsSpareOwnSide ==
    [][step'.kind = "TICK" =>
         LET out == step'.afterBullets.out
         IN /\ \A i \in SentOfType(out, "BULLET_DESTROY") :
                  /\ out[i].destroyReason = 1 => ~FiredByPlayer(out[i].bulletId)
                  /\ out[i].destroyReason = 2 => FiredByPlayer(out[i].bulletId)
            /\ ((\A id \in DOMAIN bullets : FiredByPlayer(id))
                   /\ nextBulletId' = nextBulletId)
                 => HealthOfPlayers(step'.afterBullets.clients)
                        = HealthOfPlayers(step'.atBullets.clients)
            /\ (\A id \in DOMAIN bullets : ~FiredByPlayer(id))
                 => HealthOfEnemies(step'.afterBullets.enemies)
                        = HealthOfEnemies(step'.atBullets.enemies)]_vars

\* ------------------------------------------------- properties: retreat
\* the bullets the tick created for the enemy
ShotsOf(id) == {b \in NewBulletIds : bullets'[b].ownerId = id}

\* C29: an enemy whose health is at or below the retreat threshold of its
\* type when a tick begins is in the Retreat state when its AI update of the
\* tick is over, its TryShoot has not fired in the tick and the server has
\* created no bullet for it.
C29_LowHealthRetreats ==
    [][step'.kind = "TICK" =>
         \A id \in DOMAIN enemies :
             ShouldRetreat(enemies[id]) =>
                 /\ ShotsOf(id) = {}
                 /\ id \in DOMAIN step'.atBullets.enemies =>
                       /\ step'.atBullets.enemies[id].currentAIState = "RETREAT"
                       /\ ~FiredInTick(enemies[id], step'.atBullets.enemies[id],
                                       step'.dt)]_vars

\* C29 witness: the AI update of the tick has just turned an enemy that is
\* alive, has a target and has fired within the last two seconds to Retreat
C29_Witness ==
    /\ step.kind = "TICK"
    /\ \E id \in DOMAIN step.atBullets.enemies :
          LET e == step.atBullets.enemies[id]
          IN /\ e.currentHealth > 0
             /\ ShouldRetreat(e)
             /\ e.currentAIState = "RETREAT"
             /\ e.stateTimer = 0
             /\ HasTarget(e)
             /\ id \in DOMAIN sinceShot
             /\ sinceShot[id] <= 2000

\* ------------------------------------------------- properties: enemy bullets
\* the BulletSpawn datagrams that name the enemy as the owner
SpawnsOf(out, id) ==
    {i \in SentOfType(out, "BULLET_SPAWN") : out[i].playerId = id}

\* the enemies of the map whose TryShoot returned true in the tick
ShootersOfTick ==
    {id \in DOMAIN enemies \cap DOMAIN step'.atBullets.enemies :
        FiredInTick(enemies[id], step'.atBullets.enemies[id], step'.dt)}

\* C30: in every tick the server creates one bullet and broadcasts one
\* BulletSpawn for every enemy whose TryShoot returned true in its AI update
\* of the tick, whatever the type of the enemy and the length of the tick,
\* and none for an enemy that did not shoot.
C30_OneBulletPerShot ==
    [][step'.kind = "TICK" =>
         /\ nextBulletId' - nextBulletId = Cardinality(ShootersOfTick)
         /\ \A id \in DOMAIN enemies :
               Cardinality(SpawnsOf(sent', id))
                   = IF id \in ShootersOfTick THEN 1 ELSE 0]_vars

\* ================================================= entity_interpolation.cpp: rendering
\* one coordinate of the entity stands for its position and rotations: all
\* of them are blended with the same factor.  Times are in ms, velocities in
\* units per second, factors in thousandths
INTERPOLATION_DELAY_MS == 100
MAX_EXTRAPOLATION_TIME_MS == 100
EXTRAPOLATION_BLEND_TIME_MS == 200
MAX_TIME_GAP == 300
MAX_VELOCITY == 500

CalculateVelocity(older, newer) ==
    LET timeDiff == newer.timestamp - older.timestamp
        velocity == IF timeDiff > 0 THEN Quot((newer.x - older.x) * 1000, timeDiff)
                    ELSE 0
    IN IF newer.timestamp <= older.timestamp THEN 0
       ELSE IF timeDiff > MAX_TIME_GAP THEN 0
       ELSE IF timeDiff < 1 THEN 0
       ELSE Clamp(velocity, -MAX_VELOCITY, MAX_VELOCITY)

\* the head of AddSnapshot: the snapshot gets the velocity from the snapshot
\* that precedes it in time
WithVelocity(buffer, snapshot) ==
    LET it == LowerBound(buffer, snapshot.timestamp)
    IN [timestamp |-> snapshot.timestamp, x |-> snapshot.x,
        velocity |-> IF buffer # <<>> /\ it > 1
                     THEN CalculateVelocity(buffer[it - 1], snapshot)
                     ELSE 0]

RECURSIVE CleanupOldSnapshots(_, _)
CleanupOldSnapshots(buffer, currentRenderTime) ==
    IF Len(buffer) > 2
       /\ buffer[1].timestamp < currentRenderTime - INTERPOLATION_DELAY_MS * 2
    THEN CleanupOldSnapshots(Tail(buffer), currentRenderTime)
    ELSE buffer

\* the pair of snapshots FindSnapshotsForInterpolation gives for a render
\* time that is not after the newest snapshot; the cached index only decides
\* where the search starts
FindSnapshotsForInterpolation(buffer, renderTime) ==
    LET n == Len(buffer)
        hits == {i \in 1..(n - 1) : /\ buffer[i].timestamp <= renderTime
                                    /\ renderTime < buffer[i + 1].timestamp}
        Pair(i, j) == [before |-> buffer[i], after |-> buffer[j]]
    IN IF hits # {} THEN Pair(CHOOSE i \in hits : TRUE, (CHOOSE i \in hits : TRUE) + 1)
       ELSE IF renderTime < buffer[1].timestamp THEN Pair(1, 1)
       ELSE Pair(n - 1, n)

Interpolate(before, after, t) ==
    [x |-> before.x + Quot((after.x - before.x) * Clamp(t, 0, 1000), 1000),
     wasExtrapolated |-> FALSE]

Extrapolate(latest, renderTime) ==
    LET extrapolationTime == Min(renderTime - latest.timestamp,
                                 MAX_EXTRAPOLATION_TIME_MS)
    IN [x |-> IF extrapolationTime <= 0 THEN latest.x
              ELSE latest.x + Quot(latest.velocity * extrapolationTime, 1000),
        wasExtrapolated |-> TRUE]

BlendExtrapolationToInterpolation(extrapolated, interpolated, blendFactor) ==
    [x |-> extrapolated.x
             + Quot((interpolated.x - extrapolated.x) * Clamp(blendFactor, 0, 1000),
                    1000),
     wasExtrapolated |-> FALSE]

\* the state interpolated for a render time inside the buffer
InterpolatedAt(buffer, renderTime) ==
    LET Between(p) ==
            LET timeDiff == p.after.timestamp - p.before.timestamp
            IN Interpolate(p.before, p.after,
                           IF timeDiff > 0
                           THEN Quot((renderTime - p.before.timestamp) * 1000, timeDiff)
                           ELSE 0)
    IN Between(FindSnapshotsForInterpolation(buffer, renderTime))

\* GetInterpolatedState for a buffer that is not empty: I with outState and
\* the mutable fields written
GetInterpolatedState(I, buffer, renderTime) ==
    LET latest == buffer[Len(buffer)]
        Held == [x |-> latest.x, wasExtrapolated |-> FALSE]
        Ahead(extrapolatedState) ==
            IF ~I.wasLastStateExtrapolated
            THEN [I EXCEPT !.outState = extrapolatedState,
                           !.lastExtrapolatedState = extrapolatedState,
                           !.wasLastStateExtrapolated = TRUE,
                           !.lastExtrapolationTime = renderTime]
            ELSE [I EXCEPT !.outState = extrapolatedState,
                           !.lastExtrapolatedState = extrapolatedState]
        Inside(interpolatedState) ==
            LET timeSinceExtrapolation == renderTime - I.lastExtrapolationTime
                blendFactor == Clamp(Quot(timeSinceExtrapolation * 1000,
                                          EXTRAPOLATION_BLEND_TIME_MS), 0, 1000)
            IN IF I.wasLastStateExtrapolated
               THEN IF blendFactor < 1000
                    THEN [I EXCEPT !.outState =
                             BlendExtrapolationToInterpolation(
                                 I.lastExtrapolatedState, interpolatedState,
                                 blendFactor)]
                    ELSE [I EXCEPT !.outState = interpolatedState,
                                   !.wasLastStateExtrapolated = FALSE]
               ELSE [I EXCEPT !.outState = interpolatedState]
    IN IF Len(buffer) < 2 THEN [I EXCEPT !.outState = Held]
       ELSE IF renderTime > latest.timestamp
       THEN Ahead(Extrapolate(latest, renderTime))
       ELSE Inside(InterpolatedAt(buffer, renderTime))

\* one frame of the client: the snapshots of the GameStates that arrived are
\* added, InterpolationManager::Update advances the render time and cleans
\* the buffer, and the entity is drawn from GetEntityState
RenderFrame(arrivals, dts) ==
    \E arrival \in arrivals, dt \in dts :
        LET latest == snapshots[Len(snapshots)]
            arrived == IF arrival.gap = 0 THEN snapshots
                       ELSE AddSnapshot(snapshots,
                                WithVelocity(snapshots,
                                    [timestamp |-> latest.timestamp + arrival.gap,
                                     x |-> latest.x + arrival.move]))
            renderTime == interpolation.renderTime + dt
            buffer == CleanupOldSnapshots(arrived, renderTime)
            I == GetInterpolatedState([interpolation EXCEPT !.renderTime = renderTime],
                                     buffer, renderTime)
        IN /\ snapshots' = buffer
           /\ interpolation' = I
           /\ step' = [kind |-> "RENDER", dt |-> dt, arrival |-> arrival,
                       before |-> interpolation]
           /\ tickCount' = tickCount + 1
           /\ UNCHANGED <<clients, enemies, bullets, nextPlayerId, nextEnemyId,
                          nextBulletId, outgoingSequenceNumber, gameStateUpdateTimer,
                          bulletUpdateTimer, enemySpawnTimer, sent, msgCount,
                          networkClient, receiveErrorRun, sinceShot>>

\* ------------------------------------------------- a rendering session
\* an entity seen at 0 and, 100 ms later, at 40; frames of 50 and 100 ms;
\* a frame brings no snapshot or one that is 100 or 300 ms newer than the
\* newest, with the entity 40 or 60 units further
MaxRenderFrames == 6

RenderArrivals ==
    { [gap |-> 0, move |-> 0], [gap |-> 100, move |-> 40], [gap |-> 300, move |-> 60] }

InitRender ==
    /\ clients = <<>>
    /\ enemies = <<>>
    /\ bullets = <<>>
    /\ nextPlayerId = FIRST_PLAYER_ID
    /\ nextEnemyId = FIRST_ENEMY_ID
    /\ nextBulletId = FIRST_BULLET_ID
    /\ outgoingSequenceNumber = 0
    /\ gameStateUpdateTimer = 0
    /\ bulletUpdateTimer = 0
    /\ enemySpawnTimer = 0
    /\ sent = <<>>
    /\ step = [kind |-> "START"]
    /\ tickCount = 0
    /\ msgCount = 0
    /\ networkClient = ConnectedClient
    /\ snapshots = <<[timestamp |-> 0, x |-> 0, velocity |-> 0],
                     [timestamp |-> 100, x |-> 40, velocity |-> 400]>>
    /\ interpolation = NewInterpolation
    /\ receiveErrorRun = 0
    /\ sinceShot = <<>>

NextRender == tickCount < MaxRenderFrames /\ RenderFrame(RenderArrivals, {50, 100})

SpecRender == InitRender /\ [][NextRender]_vars

\* ------------------------------------------------- properties: blending
\* the frame before drew an extrapolated state and this one draws from
\* inside the buffer
BackFromExtrapolation ==
    /\ step'.kind = "RENDER"
    /\ interpolation.outState.wasExtrapolated
    /\ Len(snapshots') >= 2
    /\ interpolation'.renderTime <= snapshots'[Len(snapshots')].timestamp

\* C31: the first frame drawn from inside the buffer after an extrapolated
\* frame shows the blend of the extrapolated state drawn last and the state
\* interpolated now, with the factor min(1, t / 200 ms) where t is the render
\* time that has passed since that last extrapolated frame.
C31_BlendFromEndOfExtrapolation ==
    [][BackFromExtrapolation =>
         LET t == interpolation'.renderTime - interpolation.renderTime
             factor == Min(1000, Quot(t * 1000, EXTRAPOLATION_BLEND_TIME_MS))
             fresh == InterpolatedAt(snapshots', interpolation'.renderTime)
         IN interpolation'.outState.x =
                interpolation.outState.x
                  + Quot((fresh.x - interpolation.outState.x) * factor, 1000)]_vars

\* ------------------------------------------------- a backlog session
\* A client whose inputs go unacknowledged for more than a hundred frames at
\* the 60 frames per second of client_main.cpp; late in
\* the run an InputAck for an old or a recent input may arrive, and the last
\* frames come 16 or 17 ms apart.
BacklogFrames == MAX_INPUT_BUFFER_SIZE - 10
JitterFrames == MAX_INPUT_BUFFER_SIZE - 2
MaxBacklogFrames == 102
MaxBacklogMsgs == 2

BacklogAcks == {InputAckPacket(1, 40), InputAckPacket(1, 95)}

NextBacklog ==
    \/ msgCount = 0 /\ ClientReceive({"Done"}, {IdAssignPacket(1)})
    \/ /\ msgCount > 0 /\ msgCount < 1 + MaxBacklogMsgs
       /\ tickCount >= BacklogFrames
       /\ ClientReceive({"Done"}, BacklogAcks)
    \/ /\ msgCount > 0 /\ tickCount < MaxBacklogFrames
       /\ ClientFrame({Pressed(FALSE, FALSE, FALSE, FALSE)},
                      IF tickCount < JitterFrames THEN {16} ELSE {16, 17},
                      {Pos(900, 480)}, {"Done"})

SpecBacklog == Init /\ [][NextBacklog]_vars

\* the frame of this step stored an input
StoresInput ==
    /\ step'.kind = "CLIENT_FRAME"
    /\ networkClient'.nextSequenceNumber = networkClient.nextSequenceNumber + 1

\* the input buffer as the frame's StoreInput finds it
BufferAtStore == ProcessInputBuffer(networkClient, step'.dt).inputBuffer

LowestOf(S) == CHOOSE s \in S : \A t \in S : s <= t

\* C32: the input history and the prediction history never hold more than
\* 60 entries and the input buffer never more than 100; when a stored input
\* overflows the buffer, the entry dropped is the one with the lowest
\* sequence number and the new input stays.
C32_HistoriesBounded ==
    [][ /\ Len(networkClient'.inputHistory) <= MAX_PREDICTION_HISTORY
        /\ Len(networkClient'.predictionHistory) <= MAX_PREDICTION_HISTORY
        /\ Cardinality(DOMAIN networkClient'.inputBuffer) <= MAX_INPUT_BUFFER_SIZE
        /\ (StoresInput
            /\ Cardinality(DOMAIN BufferAtStore) = MAX_INPUT_BUFFER_SIZE)
           => /\ LowestOf(DOMAIN BufferAtStore) \notin DOMAIN networkClient'.inputBuffer
              /\ networkClient.nextSequenceNumber \in DOMAIN networkClient'.inputBuffer
              /\ \A s \in DOMAIN BufferAtStore \ DOMAIN networkClient'.inputBuffer :
                    \A t \in DOMAIN networkClient'.inputBuffer : s < t ]_vars

\* a full buffer took one more input, and both histories are full
C32_Witness ==
    /\ step.kind = "CLIENT_FRAME"
    /\ networkClient.nextSequenceNumber > MAX_INPUT_BUFFER_SIZE + 1
    /\ Cardinality(DOMAIN networkClient.inputBuffer) = MAX_INPUT_BUFFER_SIZE
    /\ 1 \notin DOMAIN networkClient.inputBuffer
    /\ Len(networkClient.inputHistory) = MAX_PREDICTION_HISTORY
    /\ Len(networkClient.predictionHistory) = MAX_PREDICTION_HISTORY

\* ------------------------------------------------- a session without acks
\* A client at about ten frames a second whose InputAcks are all lost: every
\* frame stores an input and none is acknowledged.  The frames last 100.5 ms,
\* the last ones 100 or 100.5 ms.
StaleSteadyFrames == INPUT_TIMEOUT_MS \div 100 - 3
MaxStaleFrames == 53
StaleFrameTimes == {100000, 100500}

NextStale ==
    \/ msgCount = 0 /\ ClientReceive({"Done"}, {IdAssignPacket(1)})
    \/ /\ msgCount > 0 /\ tickCount < MaxStaleFrames
       /\ ClientFrameLasting(IF tickCount < StaleSteadyFrames
                             THEN {Pressed(FALSE, FALSE, FALSE, FALSE)}
                             ELSE {Pressed(FALSE, FALSE, FALSE, FALSE),
                                   Pressed(FALSE, FALSE, TRUE, FALSE)},
                             IF tickCount < StaleSteadyFrames THEN {100500}
                             ELSE StaleFrameTimes,
                             {Pos(900, 480)}, {"Done"})

SpecStale == Init /\ [][NextStale]_vars

\* The least time, in microseconds of the client's clock, that a buffered
\* input has been in the buffer: the clock now, less the clock when the
\* input was stamped (under a millisecond after its timestamp) and the
\* rest of the frame that stored it (under a millisecond more than its
\* deltaTime).
BufferedAtLeast(entry) ==
    networkClient.now - 1000 * (entry.input.timestamp + 1)
                      - 1000 * (entry.input.deltaTime + 1)

\* C33: no input stays in the client's input buffer once it has been
\* buffered for more than 5 s of client frame time.
C33_StaleInputsLeave ==
    \A s \in DOMAIN networkClient.inputBuffer :
        BufferedAtLeast(networkClient.inputBuffer[s]) <= 1000 * INPUT_TIMEOUT_MS

\* ------------------------------------------------- a corner session
\* Tanks spawn in the bottom right corner of the spawn rectangle; a player
\* comes within 125 units of the corner and may fire at the tank there, so
\* that the tank keeps its distance, chases and, once hurt, retreats with the
\* walls behind it.
MaxCornerMsgs == 4
MaxCornerTicks == 6

CornerDraws ==
    { [QuietDraws EXCEPT !.enemyType = t, !.spawn = Pos(SPAWN_MAX_X, SPAWN_MAX_Y),
                         !.waypoint = Pos(1180, 860), !.interior = Pos(1057, 737)] :
        t \in {"TEAL"} }

CornerMoves ==
    { [playerId |-> 1, sequenceNumber |-> 3, x |-> 1100, y |-> 800,
       bodyRotation |-> 0, barrelRotation |-> 0,
       isMoving_forward |-> FALSE, isMoving_backward |-> FALSE,
       isMoving_left |-> FALSE, isMoving_right |-> FALSE] }

CornerShots ==
    { [playerId |-> 1, spawnX |-> 1080, spawnY |-> 784,
       directionX |-> 783, directionY |-> 622, timestampValid |-> TRUE] }

NextCorner ==
    \/ msgCount = 0 /\ RecvJoin(OneJoinMsg, {Addr1}, {1})
    \/ msgCount > 0 /\ msgCount < MaxCornerMsgs /\ RecvPlayerUpdate(CornerMoves, {Addr1})
    \/ msgCount > 0 /\ msgCount < MaxCornerMsgs /\ RecvBulletSpawn(CornerShots, {Addr1})
    \/ tickCount < MaxCornerTicks /\ Tick({300, 5000}, CornerDraws)

SpecCorner == Init /\ [][NextCorner]_vars

\* C34: every enemy's position is inside the movement rectangle
\* [73, 1207] x [73, 887].
C34_EnemiesInsideMovementRect ==
    \A id \in DOMAIN enemies :
        /\ enemies[id].x >= 73 /\ enemies[id].x <= 1207
        /\ enemies[id].y >= 73 /\ enemies[id].y <= 887

\* C34 witness: a tick has left a hurt tank, in Retreat, on the right or the
\* bottom edge of the movement rectangle
C34_Witness ==
    /\ step.kind = "TICK"
    /\ \E id \in DOMAIN enemies :
          /\ enemies[id].currentAIState = "RETREAT"
          /\ enemies[id].currentHealth < enemies[id].maxHealth
          /\ enemies[id].x = MOVEMENT_MAX_X \/ enemies[id].y = MOVEMENT_MAX_Y

\* ------------------------------------------------- properties: input acks
\* C35: for each client the server's last-acknowledged input sequence never
\* decreases from one step to the next, whatever order the client's inputs
\* arrive in.
C35_AckedInputNeverDecreases ==
    [][ \A id \in DOMAIN clients \cap DOMAIN clients' :
            clients'[id].address = clients[id].address
            => clients'[id].lastAcknowledgedInputSeq
                 >= clients[id].lastAcknowledgedInputSeq ]_vars

\* ------------------------------------------------- properties: rejoin
\* the clients that have the address
ClientsAt(cs, addr) == {id \in DOMAIN cs : cs[id].address = addr}

\* C36: no two clients have the same address; a Join from an address that
\* has a client adds no client and takes no player id, and the
\* PlayerIdAssignment sent back, one when the name is valid, carries the id
\* the address has.
C36_OneClientPerAddress ==
    [][ /\ \A i \in DOMAIN clients', j \in DOMAIN clients' :
              clients'[i].address = clients'[j].address => i = j
        /\ (step'.kind = "JOIN" /\ ClientsAt(clients, step'.from) # {})
           => /\ DOMAIN clients' = DOMAIN clients
              /\ nextPlayerId' = nextPlayerId
              /\ \A i \in SentOfType(sent', "PLAYER_ID_ASSIGNMENT") :
                    /\ sent'[i].playerId \in ClientsAt(clients, step'.from)
                    /\ sent'[i].to = {step'.from}
              /\ IsValidPlayerName(step'.msg.playerName)
                 => Cardinality(SentOfType(sent', "PLAYER_ID_ASSIGNMENT")) = 1 ]_vars

\* C36 witness: a Join that asks for pink has been answered with the id of
\* the red client its address already had, next to a client of another address
C36_Witness ==
    /\ step.kind = "JOIN"
    /\ IsValidPlayerName(step.msg.playerName)
    /\ step.msg.preferredColor = "pink"
    /\ Cardinality(DOMAIN clients) = 2
    /\ nextPlayerId = FIRST_PLAYER_ID + 2
    /\ \E id \in ClientsAt(clients, step.from) :
          /\ clients[id].playerData.color = "red"
          /\ \E i \in SentOfType(sent, "PLAYER_ID_ASSIGNMENT") : sent[i].playerId = id

\* ------------------------------------------------- properties: foreign datagrams
\* the step took a datagram of the kind that names a client and comes from
\* another address than the client's
ForeignDatagram(kind) ==
    /\ step'.kind = kind
    /\ step'.msg.playerId \in DOMAIN clients
    /\ clients[step'.msg.playerId].address # step'.from

\* C37: a PlayerInput, PlayerUpdate or BulletSpawn that names a client and
\* arrives from another address than that client's leaves every client as
\* it was, creates no bullet and is answered by no datagram.
C37_ForeignDatagramsChangeNothing ==
    [][ (\E kind \in {"PLAYER_INPUT", "PLAYER_UPDATE", "BULLET_SPAWN"} :
            ForeignDatagram(kind))
        => /\ clients' = clients
           /\ bullets' = bullets
           /\ nextBulletId' = nextBulletId
           /\ sent' = <<>> ]_vars

\* C37 witness: a PlayerInput naming a client that has been idle for a tick
\* has come from another address, and the client is still idle
C37_Witness ==
    /\ step.kind = "PLAYER_INPUT"
    /\ step.msg.playerId \in DOMAIN clients
    /\ clients[step.msg.playerId].address # step.from
    /\ clients[step.msg.playerId].lastUpdateTime > 0
    /\ sent = <<>>

\* ------------------------------------------------- properties: death and respawn in turn
\* C38: for every client, a step announces at most one death and one
\* respawn; a client that is dead is not killed and loses no score before
\* its respawn; a respawn goes to a client that was dead or has died in the
\* same tick; and the client is dead afterwards exactly when the last of
\* the two events was a death.
C38_DeathAndRespawnAlternate ==
    [][ \A p \in DOMAIN clients \cap DOMAIN clients' :
          LET deaths == Cardinality(DeathsOf(sent', p))
              respawns == Cardinality(RespawnsOf(sent', p))
          IN /\ deaths <= 1 /\ respawns <= 1
             /\ clients[p].isDead
                => /\ deaths = 0
                   /\ clients'[p].score >= clients[p].score
             /\ (~clients[p].isDead /\ respawns = 1) => deaths = 1
             /\ (deaths = 1 /\ respawns = 1)
                => \A i \in DeathsOf(sent', p), j \in RespawnsOf(sent', p) : i < j
             /\ clients'[p].isDead
                  = (respawns = 0 /\ (clients[p].isDead \/ deaths = 1)) ]_vars

\* C38 witness: a tick has let an enemy bullet hit a player who was dead
\* before it and is dead after it
C38_Witness ==
    /\ step.kind = "TICK"
    /\ \E p \in DOMAIN clients :
          /\ p \in DOMAIN step.atBullets.clients
          /\ step.atBullets.clients[p].isDead
          /\ clients[p].isDead
          /\ \E i \in SentOfType(sent, "BULLET_DESTROY") :
                sent[i].destroyReason = 1 /\ sent[i].hitTargetId = p

\* ------------------------------------------------- a session with shots from the dead
\* The player of the respawn session, who asks for a bullet toward the
\* Purple tank at any moment, also while dead.
MaxGhostMsgs == 2
MaxGhostTicks == 36

GhostShots ==
    { [playerId |-> 1, spawnX |-> 670, spawnY |-> 480,
       directionX |-> 1000, directionY |-> 0, timestampValid |-> TRUE] }

NextGhost ==
    \/ tickCount = 0 /\ msgCount = 0 /\ RecvJoin(OneJoinMsg, {Addr1}, {1})
    \/ msgCount > 0 /\ msgCount < MaxGhostMsgs /\ RecvBulletSpawn(GhostShots, {Addr1})
    \/ msgCount > 0 /\ tickCount < MaxGhostTicks /\ Tick({300}, CombatDraws)

SpecGhost == Init /\ [][NextGhost]_vars

\* C39: a BulletSpawn request that names a client who is dead creates no
\* bullet.
C39_NoBulletForTheDead ==
    [][ (/\ step'.kind = "BULLET_SPAWN"
         /\ step'.msg.playerId \in DOMAIN clients
         /\ clients[step'.msg.playerId].isDead)
        => /\ bullets' = bullets
           /\ nextBulletId' = nextBulletId ]_vars

\* ------------------------------------------------- a session of two players
\* Two players join at the centre, where the server holds them a tank's
\* width apart; either may step 20 units down.  A Purple tank spawns 130
\* units to their right and fires at them.
MaxPairMsgs == 2
MaxPairTicks == 34

PairMoves ==
    { [playerId |-> p, sequenceNumber |-> 3, x |-> 640, y |-> 500,
       bodyRotation |-> 0, barrelRotation |-> 0,
       isMoving_forward |-> FALSE, isMoving_backward |-> FALSE,
       isMoving_left |-> FALSE, isMoving_right |-> FALSE] : p \in {1, 2} }

NextPair ==
    \/ tickCount = 0 /\ msgCount = 0 /\ RecvJoin(OneJoinMsg, {Addr1}, {1})
    \/ tickCount = 0 /\ msgCount = 1 /\ RecvJoin(OneJoinMsg, {Addr2}, {1})
    \/ msgCount > 1 /\ msgCount < 2 + MaxPairMsgs
          /\ RecvPlayerUpdate(PairMoves, {Addr1, Addr2})
    \/ msgCount > 1 /\ tickCount < MaxPairTicks /\ Tick({300}, CombatDraws)

SpecPair == Init /\ [][NextPair]_vars

\* the datagrams of the step that report a bullet's hit on a player (1) or
\* on an enemy (2)
HitReports(reason) ==
    {i \in SentOfType(sent', "BULLET_DESTROY") : sent'[i].destroyReason = reason}

\* C40: a tick reports at most one hit for a bullet, the bullet that hit is
\* gone from the bullet map when the tick ends, and every player or enemy
\* loses in the bullet phase no more health than the hits reported on it
\* account for.
C40_OneHitPerBullet ==
    [][ /\ \A i \in HitReports(1) \cup HitReports(2) :
              /\ sent'[i].bulletId \notin DOMAIN bullets'
              /\ \A j \in HitReports(1) \cup HitReports(2) :
                    sent'[j].bulletId = sent'[i].bulletId => i = j
        /\ step'.kind = "TICK"
           => /\ \A p \in DOMAIN step'.atBullets.clients :
                    step'.atBullets.clients[p].playerData.health
                      - step'.afterBullets.clients[p].playerData.health
                    <= BulletDamage("ENEMY_STANDARD")
                         * Cardinality({i \in HitReports(1) : sent'[i].hitTargetId = p})
              /\ \A e \in DOMAIN step'.atBullets.enemies :
                    step'.atBullets.enemies[e].currentHealth
                      - step'.afterBullets.enemies[e].currentHealth
                    <= BulletDamage("PLAYER_STANDARD")
                         * Cardinality({i \in HitReports(2) : sent'[i].hitTargetId = e}) ]_vars

\* C40 witness: a tick has reported one hit of an enemy bullet that touched
\* two players in full health, and only the player of the report was hurt
C40_Witness ==
    /\ step.kind = "TICK"
    /\ \E i \in SentOfType(sent, "BULLET_DESTROY") :
          /\ sent[i].destroyReason = 1
          /\ \E p \in DOMAIN clients, q \in DOMAIN clients :
                /\ p # q /\ sent[i].hitTargetId = p
                /\ \A r \in {p, q} :
                      /\ r \in DOMAIN step.atBullets.clients
                      /\ step.atBullets.clients[r].isActive
                      /\ DistSq(sent[i].hitX, sent[i].hitY,
                                step.atBullets.clients[r].playerData.x,
                                step.atBullets.clients[r].playerData.y)
                           < (BulletRadius("ENEMY_STANDARD") + TANK_RADIUS)
                               * (BulletRadius("ENEMY_STANDARD") + TANK_RADIUS)
                /\ step.atBullets.clients[q].playerData.health
                     = step.afterBullets.clients[q].playerData.health
                /\ step.atBullets.clients[q].playerData.health > 0
                /\ step.atBullets.clients[p].playerData.health
                     > step.afterBullets.clients[p].playerData.health

=============================================================================
